---- MODULE Spec2Model ----
(***************************************************************************)
(* IdeaFlow backend: the idea store (qdrant_service.py), the relay         *)
(* listener (nostr_client.py) and the ingestion handler with its SSE       *)
(* fan-out (main.py), as written in ideaflow-spec.md.                      *)
(***************************************************************************)
EXTENDS Integers, Sequences, FiniteSets, TLC

\* ------------------------------------------------------------------ bounds

\* frames the relay sends in one run of the live system
MaxEvents == 2
\* frames the relay sends in one run of the retrieval specification
MaxIngest == 3
\* GET /stream requests in one run
MaxSubs == 2
\* largest limit passed to find_related
MaxLimit == 2
\* frames the relay sends in one run of the search specification
MaxSearchIngest == 2
\* completed init_collection calls in one run of the startup specification
MaxInits == 2
\* frames ingested in one run of the startup specification
MaxSetupIngest == 2
\* frames ingested in one run of the specification of all store operations
MaxFrameIngest == 1
\* largest limit of a retrieval call in that specification
MaxFrameLimit == 1
\* ideas in the store when such a run starts, when there are any
MaxFramePoints == 5
\* async calls of the page waiting at the same time
MaxCalls == 2
\* connections the client opens in a run
MaxConns == 2
\* events published to the relay in a run
MaxRelayEvents == 2
\* fetch_events calls in a run
MaxFetches == 2
\* most ideas in the store of a clustering run
MaxPoints == 18

\* ------------------------------------------------------- program constants

\* content[:200]
PreviewLen == 200
\* asyncio.Queue(): maxsize defaults to 0, no limit
maxsize == 0
\* client.scroll(limit=1000)
ScrollLimit == 1000
\* VECTOR_SIZE = 384
VECTOR_SIZE == 384
\* check_resonance: search_similar(..., limit=3, ...)
ResonanceLimit == 3
\* check_resonance: s["score"] > 0.7, in thousandths
ResonanceThreshold == 700
\* bytes of a secret key: /^[0-9a-fA-F]{64}$/ is two characters for each
KeyBytes == 32

\* ------------------------------------------------------------------ values

\* Texts of ideas, each with its length in characters.
Contents == {"cats", "kittens", "quantum"}

ContentLen(c) ==
    CASE c = "cats" -> 11
      [] c = "kittens" -> 22
      [] OTHER -> 250

\* An embedding is a unit vector; it is kept as its direction, in steps of
\* 30 degrees, and the cosine of two directions in thousandths.
CosTable == <<1000, 866, 500, 0>>

Cosine(u, v) == CosTable[(IF u >= v THEN u - v ELSE v - u) + 1]

\* create_embedding: deterministic, normalised. Two texts may share a vector.
create_embedding(text) ==
    CASE text = "cats" -> 0
      [] text = "kittens" -> 1
      [] text = "quantum" -> 3
      [] OTHER -> 0

\* content[:200], kept as the text and the length of the prefix taken.
Preview(content) ==
    [text |-> content,
     len |-> IF ContentLen(content) < PreviewLen THEN ContentLen(content) ELSE PreviewLen]

\* The events the relay may send. "a" arrives in two versions, "b" has the
\* content of the first version of "a", one event has an empty id.
Events ==
    { [id |-> "a", pubkey |-> "p1", created_at |-> 1, content |-> "cats",
       tags |-> << <<"d", "u1">>, <<"t", "idea">> >>],
      [id |-> "a", pubkey |-> "p1", created_at |-> 2, content |-> "quantum",
       tags |-> << <<"e", "b">>, <<"t", "idea">>, <<"e", "c">>, <<"e", "b">> >>],
      [id |-> "b", pubkey |-> "p2", created_at |-> 1, content |-> "cats",
       tags |-> << <<"e", "a">> >>],
      [id |-> "", pubkey |-> "p2", created_at |-> 2, content |-> "kittens",
       tags |-> << <<"e", "zz">> >>] }

Ids == {e.id : e \in Events}

\* The events of the runs with live streams.
LiveEvents == {e \in Events : e.id /= "b"}

\* Ids a retrieval call may name: the stored ones and one that never is.
QueryIds == Ids \cup {"nope"}

SubIds == 1..MaxSubs

\* ------------------------------------------------------------------- state

VARIABLES
    store,          \* Qdrant collection "ideas": id -> point
    inbox,          \* websocket frames the relay sent and listen() has not read
    listenTask,     \* the task running NostrClient.listen
    log,            \* history: the events handle_new_idea handled to the end
    event_queues,   \* main.event_queues: the list of registered queues
    queue,          \* contents of each asyncio.Queue
    gen,            \* each stream's event_generator
    connected,      \* not request.is_disconnected()
    delivered,      \* history: the new-idea events yielded on each stream
    subAt,          \* history: Len(log) when the stream registered
    lastQuery,      \* the last call of an operation and what it returned
    collection,     \* Qdrant: the collection "ideas", its config and indices
    startup,        \* init_collection: where the call is, and calls completed
    app,            \* app.js: the fields of the ideaFlow() component
    NostrTools,     \* window.NostrTools
    localStorage,   \* localStorage item 'nostr_keys'
    calls,          \* async calls of the component waiting at an await
    lastCall,       \* history: the last step of the page, its input and requests
    ws,             \* NostrClient.ws: the connection it reads and writes
    relay,          \* the relay: its subscriptions and events; history: frames sent
    fetch           \* the fetch_events call: where it is, what it read and returned

setupVars == <<collection, startup>>

frontVars == <<app, NostrTools, localStorage, calls, lastCall>>

relayVars == <<ws, relay, fetch>>

restVars == <<setupVars, frontVars, relayVars>>

vars == <<store, inbox, listenTask, log, event_queues, queue, gen,
          connected, delivered, subAt, lastQuery, setupVars, frontVars,
          relayVars>>

hubVars == <<event_queues, queue, gen, connected, delivered, subAt>>

ingestVars == <<store, inbox, listenTask, log>>

NoQuery == [op |-> "none"]

\* The collection "ideas" is not there.
NoCollection == [exists |-> FALSE, size |-> 0, distance |-> "none", indices |-> {}]

\* create_collection(vectors_config=VectorParams(size=VECTOR_SIZE,
\* distance=Distance.COSINE)): the collection without payload index.
NewCollection == [exists |-> TRUE, size |-> VECTOR_SIZE, distance |-> "Cosine",
                  indices |-> {}]

\* create_payload_index(field_name, field_schema)
PayloadIndex(field_name, field_schema) == [field |-> field_name, schema |-> field_schema]

\* What init_collection builds when it runs to its end on an empty Qdrant.
FullCollection ==
    [NewCollection EXCEPT !.indices = {PayloadIndex("pubkey", "keyword"),
                                       PayloadIndex("created_at", "integer")}]

\* The data of ideaFlow() before init().
AppData ==
    [pubkey |-> << >>, privateKey |-> << >>, newIdea |-> "", activeTab |-> "ideas",
     isSubmitting |-> FALSE, submitStatus |-> "null", nostrReady |-> FALSE,
     showKeyModal |-> FALSE, keyImportValue |-> << >>, keyExportValue |-> << >>,
     timeFilter |-> "all", showExportMenu |-> FALSE, showReferenceSearch |-> FALSE,
     referenceSearchQuery |-> "", referenceSearchResults |-> << >>,
     selectedReferences |-> << >>,
     watchers |-> {}]

\* No fetch_events call has been made.
NoFetch ==
    [pc |-> "idle", sub_id |-> "none", events |-> << >>, read |-> << >>,
     error |-> "none", n |-> 0]

\* lifespan has connected and subscribed "ideas": the relay holds the
\* subscription of connection 1; no event has been published.
RelayInit ==
    /\ ws = [conn |-> 1, open |-> TRUE]
    /\ relay = [subs |-> { [conn |-> 1, sub_id |-> "ideas", filter |-> "ideas"] },
                events |-> {}, sent |-> << >>, unsent |-> {}]
    /\ fetch = NoFetch

NoCall == [op |-> "none"]

\* localStorage.getItem('nostr_keys') is null.
NoItem == [present |-> FALSE]

\* The page as loaded: nothing stored, the import of nostr-tools pending.
FrontInit ==
    /\ app = AppData
    /\ NostrTools = "undefined"
    /\ localStorage = NoItem
    /\ calls = << >>
    /\ lastCall = NoCall

\* The service after lifespan ran init_collection on an empty Qdrant.
Init ==
    /\ collection = FullCollection
    /\ startup = [pc |-> "idle", done |-> 1]
    /\ FrontInit
    /\ store = << >>
    /\ inbox = << >>
    /\ listenTask = "running"
    /\ RelayInit
    /\ log = << >>
    /\ event_queues = << >>
    /\ queue = [s \in SubIds |-> << >>]
    /\ gen = [s \in SubIds |-> "none"]
    /\ connected = [s \in SubIds |-> FALSE]
    /\ delivered = [s \in SubIds |-> << >>]
    /\ subAt = [s \in SubIds |-> 0]
    /\ lastQuery = NoQuery

\* ------------------------------------------------------------- idea store

PointStruct(event_id, content, pubkey, created_at, references) ==
    [id |-> event_id,
     vector |-> create_embedding(content),
     payload |-> [nostr_event_id |-> event_id,
                  pubkey |-> pubkey,
                  created_at |-> created_at,
                  references |-> references,
                  content_preview |-> Preview(content)]]

\* Variant: inserts when the id is new and keeps the point of a known id.
upsert_insert_only(st, point) == st @@ (point.id :> point)

\* Variant: the collection is replaced by the point.
upsert_alone(st, point) == (point.id :> point)

\* client.upsert: insert or replace the point of that id.
upsert(st, point) == (point.id :> point) @@ st

\* store_idea: raises when the store does not answer, and then writes nothing.
store_idea(st, up, event_id, content, pubkey, created_at, references) ==
    IF up
      THEN [raised |-> FALSE,
            store |-> upsert(st, PointStruct(event_id, content, pubkey,
                                             created_at, references))]
      ELSE [raised |-> TRUE, store |-> st]

\* ---------------------------------------------------------------- startup

\* any(c.name == COLLECTION_NAME for c in client.get_collections().collections)
collection_exists(coll) == coll.exists

\* init_collection is called and reads the collections: with "ideas" there
\* it returns at once, else it goes on to create it.
InitBegin ==
    /\ startup.pc = "idle"
    /\ startup.done < MaxInits
    /\ startup' = IF collection_exists(collection)
                    THEN [startup EXCEPT !.done = @ + 1]
                    ELSE [startup EXCEPT !.pc = "create_collection"]
    /\ UNCHANGED <<collection, ingestVars, hubVars, lastQuery, frontVars, relayVars>>

\* client.create_collection: a new, empty collection.
InitCreateCollection ==
    /\ startup.pc = "create_collection"
    /\ collection' = NewCollection
    /\ store' = << >>
    /\ startup' = [startup EXCEPT !.pc = "index_pubkey"]
    /\ UNCHANGED <<inbox, listenTask, log, hubVars, lastQuery, frontVars, relayVars>>

\* client.create_payload_index(field_name="pubkey", field_schema="keyword")
InitIndexPubkey ==
    /\ startup.pc = "index_pubkey"
    /\ collection' = [collection EXCEPT
                         !.indices = @ \cup {PayloadIndex("pubkey", "keyword")}]
    /\ startup' = [startup EXCEPT !.pc = "index_created_at"]
    /\ UNCHANGED <<ingestVars, hubVars, lastQuery, frontVars, relayVars>>

\* client.create_payload_index(field_name="created_at",
\* field_schema="integer"), and init_collection returns.
InitIndexCreatedAt ==
    /\ startup.pc = "index_created_at"
    /\ collection' = [collection EXCEPT
                         !.indices = @ \cup {PayloadIndex("created_at", "integer")}]
    /\ startup' = [pc |-> "idle", done |-> startup.done + 1]
    /\ UNCHANGED <<ingestVars, hubVars, lastQuery, frontVars, relayVars>>

\* The process is stopped, or a request to Qdrant raises, inside
\* init_collection: the call does not complete.
InitInterrupted ==
    /\ startup.pc /= "idle"
    /\ startup' = [startup EXCEPT !.pc = "idle"]
    /\ UNCHANGED <<collection, ingestVars, hubVars, lastQuery, frontVars, relayVars>>

\* ---------------------------------------------------------------- fan-out

InList(l, x) == \E i \in 1..Len(l) : l[i] = x

\* Variant: a queue that holds one entry.
full_bounded(q) == Len(q) >= 1

\* asyncio.Queue.full(): a queue made without maxsize is never full.
full(q) == maxsize > 0 /\ Len(q) >= maxsize

\* Variant: the loop leaves after the first queue.
put_all_first_only(qs, registered, item) ==
    [s \in SubIds |->
        IF registered /= << >> /\ registered[1] = s
          THEN Append(qs[s], item)
          ELSE qs[s]]

\* for queue in event_queues: await queue.put(event)
\* put waits only while the queue is full; when none is, the loop has no
\* suspension point and runs as one step.
put_all(qs, registered, item) ==
    [s \in SubIds |-> IF InList(registered, s) THEN Append(qs[s], item) ELSE qs[s]]

IsETag(tag) == tag[1] = "e"

\* [tag[1] for tag in event.get("tags", []) if tag[0] == "e"]
References(tags) ==
    LET es == SelectSeq(tags, IsETag)
    IN  [i \in 1..Len(es) |-> es[i][2]]

\* Variant: the exception of store_idea is swallowed and the event published.
handle_new_idea_swallow(event, n, st, up, qs, registered) ==
    LET r == store_idea(st, up, event.id, event.content, event.pubkey,
                        event.created_at, References(event.tags))
    IN  [raised |-> FALSE, waits |-> FALSE, store |-> r.store,
         queue |-> put_all(qs, registered, [seq |-> n, event |-> event])]

\* Variant: publish first, store afterwards.
handle_new_idea_publish_first(event, n, st, up, qs, registered) ==
    LET r == store_idea(st, up, event.id, event.content, event.pubkey,
                        event.created_at, References(event.tags))
    IN  [raised |-> r.raised, waits |-> FALSE, store |-> r.store,
         queue |-> put_all(qs, registered, [seq |-> n, event |-> event])]

\* handle_new_idea: store, then publish; an exception of store_idea leaves
\* the handler before the publish loop. n numbers the calls that reach the
\* end; a queue entry is the event with that number. waits: a put would wait.
handle_new_idea(event, n, st, up, qs, registered) ==
    LET r == store_idea(st, up, event.id, event.content, event.pubkey,
                        event.created_at, References(event.tags))
    IN  IF r.raised
          THEN [raised |-> TRUE, waits |-> FALSE, store |-> r.store, queue |-> qs]
          ELSE [raised |-> FALSE,
                waits |-> \E s \in SubIds : InList(registered, s) /\ full(qs[s]),
                store |-> r.store,
                queue |-> put_all(qs, registered, [seq |-> n, event |-> event])]

\* --------------------------------------------------------- relay listener

subscriptions == {"ideas"}

\* What listen() does with one frame read from the websocket: dispatch by
\* subscription id. Only websockets.ConnectionClosed is caught around it, so
\* an exception of the callback ends the task.
dispatch(data, n, st, up, qs, registered) ==
    IF data[1] = "EVENT" /\ data[2] \in subscriptions
      THEN LET r == handle_new_idea(data[3], n, st, up, qs, registered)
           IN  [handled |-> TRUE, raised |-> r.raised, waits |-> r.waits,
                store |-> r.store, queue |-> r.queue]
      ELSE [handled |-> FALSE, raised |-> FALSE, waits |-> FALSE, store |-> st,
            queue |-> qs]

\* Frames the relay has sent so far: those handled to the end, those left
\* unread, and the one whose handling raised.
Sent == Len(log) + Len(inbox) + (IF listenTask = "crashed" THEN 1 ELSE 0)

\* The relay sends an EVENT frame of the "ideas" subscription and the loop of
\* listen(), waiting in ws.recv(), reads it. up: whether Qdrant answers the
\* upsert of this call; max: the frames sent in a run.
listen(ev, up, max) ==
    /\ listenTask = "running"
    /\ Sent < max
    /\ LET data == <<"EVENT", "ideas", ev>>
           r == dispatch(data, Len(log) + 1, store, up, queue, event_queues)
       IN  /\ ~r.waits
           /\ store' = r.store
           /\ queue' = r.queue
           /\ log' = IF r.handled /\ ~r.raised THEN Append(log, data[3]) ELSE log
           /\ listenTask' = IF r.raised THEN "crashed" ELSE "running"
    /\ UNCHANGED <<inbox, event_queues, gen, connected, delivered, subAt,
                   lastQuery, restVars>>

\* The relay sends a frame and no task reads the websocket any more.
RelaySendUnread(ev) ==
    /\ listenTask /= "running"
    /\ Sent < MaxEvents
    /\ inbox' = Append(inbox, <<"EVENT", "ideas", ev>>)
    /\ UNCHANGED <<store, listenTask, log, hubVars, lastQuery, restVars>>

\* ------------------------------------------------------------ SSE streams

\* list.remove(x): drops the first occurrence.
list_remove(l, x) ==
    LET i == CHOOSE k \in 1..Len(l) :
                 l[k] = x /\ \A j \in 1..(k - 1) : l[j] /= x
    IN  SubSeq(l, 1, i - 1) \o SubSeq(l, i + 1, Len(l))

\* event_queues.remove(queue): ValueError when the queue is not in the list.
remove(l, x) ==
    IF InList(l, x)
      THEN [raised |-> FALSE, list |-> list_remove(l, x)]
      ELSE [raised |-> TRUE, list |-> l]

\* GET /stream: a new queue is appended to event_queues and the response is
\* returned with a generator that has not started.
stream(s) ==
    /\ gen[s] = "none"
    /\ \A t \in SubIds : t < s => gen[t] /= "none"
    /\ event_queues' = Append(event_queues, s)
    /\ queue' = [queue EXCEPT ![s] = << >>]
    /\ gen' = [gen EXCEPT ![s] = "created"]
    /\ connected' = [connected EXCEPT ![s] = TRUE]
    /\ subAt' = [subAt EXCEPT ![s] = Len(log)]
    /\ UNCHANGED <<store, inbox, listenTask, log, delivered, lastQuery, restVars>>

\* The client goes away.
Disconnect(s) ==
    /\ gen[s] /= "none"
    /\ connected[s]
    /\ connected' = [connected EXCEPT ![s] = FALSE]
    /\ UNCHANGED <<ingestVars, event_queues, queue, gen,
                   delivered, subAt, lastQuery, restVars>>

\* Variant: the newest entry is taken.
queue_get_lifo(q) == [item |-> q[Len(q)], rest |-> SubSeq(q, 1, Len(q) - 1)]

\* queue.get() returns within the timeout: the head is yielded as new-idea.
queue_get(q) == [item |-> Head(q), rest |-> Tail(q)]

GenDeliver(s) ==
    /\ gen[s] \in {"created", "running"}
    /\ connected[s]
    /\ queue[s] /= << >>
    /\ LET g == queue_get(queue[s])
       IN  /\ queue' = [queue EXCEPT ![s] = g.rest]
           /\ delivered' = [delivered EXCEPT ![s] = Append(@, g.item)]
    /\ gen' = [gen EXCEPT ![s] = "running"]
    /\ UNCHANGED <<ingestVars, event_queues, connected, subAt,
                   lastQuery, restVars>>

\* Variant: the TimeoutError is not caught, the generator ends and its
\* finally block runs.
GenPing_uncaught(s) ==
    /\ gen[s] \in {"created", "running"}
    /\ connected[s]
    /\ queue[s] = << >>
    /\ event_queues' = list_remove(event_queues, s)
    /\ gen' = [gen EXCEPT ![s] = "closed"]
    /\ UNCHANGED <<ingestVars, queue, connected, delivered, subAt, lastQuery, restVars>>

\* asyncio.TimeoutError after 30 s without an event: ping is yielded. The
\* generator is then back in its loop; nothing else changes.
GenPing(s) ==
    /\ gen[s] \in {"created", "running"}
    /\ connected[s]
    /\ queue[s] = << >>
    /\ gen' = [gen EXCEPT ![s] = "running"]
    /\ UNCHANGED <<ingestVars, event_queues, queue, connected,
                   delivered, subAt, lastQuery, restVars>>

\* The generator sees the disconnect (or is cancelled for it): finally runs.
\* Nothing refers to the queue afterwards; the stream's history ends here.
GenClose(s) ==
    /\ gen[s] \in {"created", "running"}
    /\ ~connected[s]
    /\ event_queues' = remove(event_queues, s).list
    /\ gen' = [gen EXCEPT ![s] = "closed"]
    /\ queue' = [queue EXCEPT ![s] = << >>]
    /\ delivered' = [delivered EXCEPT ![s] = << >>]
    /\ subAt' = [subAt EXCEPT ![s] = 0]
    /\ UNCHANGED <<ingestVars, connected, lastQuery, restVars>>

\* The response is dropped before the generator ran its first step: a
\* generator that never started runs no finally block.
GenAbandon(s) ==
    /\ gen[s] = "created"
    /\ ~connected[s]
    /\ gen' = [gen EXCEPT ![s] = "abandoned"]
    /\ UNCHANGED <<ingestVars, event_queues, queue, connected,
                   delivered, subAt, lastQuery, restVars>>

\* The statement of the finally block, event_queues.remove(queue), run for
\* the queue of a stream whose consumer is gone and whose generator has
\* finished or was dropped: the hub's unsubscribe, called by a caller other
\* than the generator.
unsubscribe(s) ==
    /\ gen[s] \in {"closed", "abandoned"}
    /\ LET r == remove(event_queues, s)
       IN  /\ event_queues' = r.list
           /\ lastQuery' = [op |-> "unsubscribe", handle |-> s,
                            raised |-> r.raised, before |-> event_queues]
    /\ UNCHANGED <<ingestVars, queue, gen, connected, delivered, subAt, restVars>>

\* -------------------------------------------------------------- retrieval

Min(a, b) == IF a < b THEN a ELSE b

Hit(st, id, query_vector) ==
    [id |-> id, score |-> Cosine(st[id].vector, query_vector),
     payload |-> st[id].payload]

\* Variant: up to limit points that pass the filter, in no order.
search_unranked(st, query_vector, limit, pubkey_filter) ==
    LET cands == {id \in DOMAIN st :
                     pubkey_filter = "" \/ st[id].payload.pubkey = pubkey_filter}
        k == Min(limit, Cardinality(cands))
    IN  { [i \in 1..k |-> Hit(st, r[i], query_vector)] :
            r \in { f \in [1..k -> cands] : \A i, j \in 1..k : i < j => f[i] /= f[j] } }

\* client.search: up to limit points, best score first; which of several
\* points of equal score comes first, or makes the cut, is not fixed.
\* pubkey_filter is "" for no filter (a falsy value builds no Filter).
search(st, query_vector, limit, pubkey_filter) ==
    LET cands == {id \in DOMAIN st :
                     pubkey_filter = "" \/ st[id].payload.pubkey = pubkey_filter}
        k == Min(limit, Cardinality(cands))
        sc(id) == Cosine(st[id].vector, query_vector)
    IN  { [i \in 1..k |-> Hit(st, r[i], query_vector)] :
            r \in { f \in [1..k -> cands] :
                      /\ \A i, j \in 1..k : i < j =>
                            f[i] /= f[j] /\ sc(f[i]) >= sc(f[j])
                      /\ \A c \in cands : (\A i \in 1..k : f[i] /= c) =>
                            \A i \in 1..k : sc(c) <= sc(f[i]) } }

\* Variant: the source is not filtered out.
find_related_unfiltered(st, event_id, limit) ==
    IF event_id \notin DOMAIN st
      THEN { << >> }
      ELSE { SubSeq(results, 1, Min(limit, Len(results))) :
               results \in search(st, st[event_id].vector, limit + 1, "") }

\* client.retrieve(ids=[event_id], with_vectors=True): the points found.
retrieve(st, event_id) ==
    IF event_id \in DOMAIN st THEN << st[event_id] >> ELSE << >>

\* Variant: the query vector is the embedding of the id text, nothing is
\* retrieved.
find_related_reencode(st, event_id, limit) ==
    LET NotSource(hit) == hit.id /= event_id
    IN  { SubSeq(SelectSeq(results, NotSource), 1,
                 Min(limit, Len(SelectSeq(results, NotSource)))) :
            results \in search(st, create_embedding(event_id), limit + 1, "") }

\* Variant: the search asks for limit neighbours, not limit + 1.
find_related_no_extra(st, event_id, limit) ==
    LET points == retrieve(st, event_id)
    IN  IF points = << >>
          THEN { << >> }
          ELSE LET NotSource(hit) == hit.id /= event_id
               IN  { SubSeq(SelectSeq(results, NotSource), 1,
                            Min(limit, Len(SelectSeq(results, NotSource)))) :
                       results \in search(st, points[1].vector, limit, "") }

\* find_related: the results the call may return.
find_related(st, event_id, limit) ==
    LET points == retrieve(st, event_id)
    IN  IF points = << >>
          THEN { << >> }
          ELSE LET NotSource(hit) == hit.id /= event_id
               IN  { SubSeq(SelectSeq(results, NotSource), 1,
                            Min(limit, Len(SelectSeq(results, NotSource)))) :
                       results \in search(st, points[1].vector, limit + 1, "") }

\* The requests find_related sends to Qdrant, in order.
find_related_calls(st, event_id) ==
    IF retrieve(st, event_id) = << >>
      THEN << "retrieve" >>
      ELSE << "retrieve", "search" >>

\* GET /api/related/{event_id}
get_related(event_id, limit) ==
    /\ \E results \in find_related(store, event_id, limit) :
          lastQuery' = [op |-> "related", id |-> event_id, limit |-> limit,
                        at |-> Len(log), results |-> results,
                        calls |-> find_related_calls(store, event_id)]
    /\ UNCHANGED <<ingestVars, hubVars, restVars>>

\* ------------------------------------------------------------------ search

\* Query texts: the contents, the empty text and a text of blanks.
QueryTexts == Contents \cup {"", "  "}

\* str.strip()
strip(q) == IF q \in {"", "  "} THEN "" ELSE q

\* The pubkey argument: absent (None), empty, or a key.
PubkeyArgs == {"None", "", "p1", "p2"}

\* {"event_id": hit.id, "score": hit.score, **hit.payload}
Result(hit) == [event_id |-> hit.id, score |-> hit.score] @@ hit.payload

\* Variant: the filter is never built.
search_similar_unfiltered(st, query, limit, pubkey_filter) ==
    { [i \in 1..Len(hits) |-> Result(hits[i])] :
        hits \in search(st, create_embedding(query), limit, "") }

\* search_similar: the results the call may return. The Filter is built only
\* for a truthy pubkey_filter.
search_similar(st, query, limit, pubkey_filter) ==
    LET search_filter == IF pubkey_filter \in {"None", ""} THEN "" ELSE pubkey_filter
    IN  { [i \in 1..Len(hits) |-> Result(hits[i])] :
            hits \in search(st, create_embedding(query), limit, search_filter) }

\* GET /api/search
search_ideas(q, limit, pubkey) ==
    /\ \E results \in search_similar(store, q, limit, pubkey) :
          lastQuery' = [op |-> "search", query |-> q, limit |-> limit,
                        pubkey |-> pubkey, at |-> Len(log),
                        results |-> results, calls |-> << "search" >>]
    /\ UNCHANGED <<ingestVars, hubVars, restVars>>

\* limit=10 of the partial
PartialLimit == 10

\* One <article> of the partial: int(score * 100), the preview, pubkey[:8].
Card(r) ==
    [event_id |-> r.event_id, score_percent |-> r.score \div 10,
     content_preview |-> r.content_preview, pubkey |-> r.pubkey]

\* GET /partials/search-results: the placeholder for a blank q, else a card
\* for every result.
search_results_partial(q) ==
    /\ IF strip(q) = ""
         THEN lastQuery' = [op |-> "partial", query |-> q, limit |-> PartialLimit,
                            pubkey |-> "None", at |-> Len(log),
                            results |-> << >>, calls |-> << >>]
         ELSE \E results \in search_similar(store, q, PartialLimit, "None") :
                lastQuery' = [op |-> "partial", query |-> q, limit |-> PartialLimit,
                              pubkey |-> "None", at |-> Len(log),
                              results |-> [i \in 1..Len(results) |-> Card(results[i])],
                              calls |-> << "search" >>]
    /\ UNCHANGED <<ingestVars, hubVars, restVars>>

\* --------------------------------------------------------------- resonance

\* Variant: the ideas of every author are searched.
check_resonance_any_author(st, new_event, user_pubkey) ==
    { LET resonant == SelectSeq(similar, LAMBDA r : r.score > ResonanceThreshold)
      IN  IF resonant /= << >>
            THEN [signal |-> TRUE, type |-> "resonance", new_idea |-> new_event.id,
                  matching_ideas |-> resonant]
            ELSE [signal |-> FALSE] :
        similar \in search_similar(st, new_event.content, ResonanceLimit, "None") }

\* check_resonance: what the call may return; signal FALSE is None.
check_resonance(st, new_event, user_pubkey) ==
    { LET resonant == SelectSeq(similar, LAMBDA r : r.score > ResonanceThreshold)
      IN  IF resonant /= << >>
            THEN [signal |-> TRUE, type |-> "resonance", new_idea |-> new_event.id,
                  matching_ideas |-> resonant]
            ELSE [signal |-> FALSE] :
        similar \in search_similar(st, new_event.content, ResonanceLimit, user_pubkey) }

\* check_resonance is called for an event and a user.
CheckResonance(new_event, user_pubkey) ==
    /\ \E result \in check_resonance(store, new_event, user_pubkey) :
          lastQuery' = [op |-> "resonance", event |-> new_event,
                        pubkey |-> user_pubkey, at |-> Len(log), result |-> result]
    /\ UNCHANGED <<ingestVars, hubVars, restVars>>

\* -------------------------------------------------------------- clustering

\* The ids of the ideas of the clustering runs, in the order Qdrant scans them.
PointId(i) == ToString(i)

ScrollOrder == [i \in 1..MaxPoints |-> PointId(i)]

\* client.scroll(limit, with_vectors, with_payload)[0]: the first limit
\* points of the collection.
scroll(st, limit) ==
    LET Stored(id) == id \in DOMAIN st
        ids == SelectSeq(ScrollOrder, Stored)
    IN  [i \in 1..Min(limit, Len(ids)) |-> st[ids[i]]]

\* Variant: the threshold is 3.
too_few_3(points) == Len(points) < 3

\* if len(points) < 5
too_few(points) == Len(points) < 5

\* Variant: a cluster for every two points.
n_clusters_half(n) == Min(5, n \div 2)

\* n_clusters = min(5, len(points) // 3)
n_clusters(n) == Min(5, n \div 3)

\* KMeans(n_clusters, random_state=42).fit_predict(vectors): a label in
\* 0..n_clusters-1 for each point, the label of the nearest centre. Points of
\* equal vectors get equal labels; which centres the fit ends with, and so
\* which labels are used at all, is left open.
fit_predict(vectors, k) ==
    LET distinct == {vectors[i] : i \in 1..Len(vectors)}
    IN  { [i \in 1..Len(vectors) |-> centre[vectors[i]]] :
            centre \in [distinct -> 0..(k - 1)] }

\* The dict of label -> members filled in scan order, then list(values()):
\* the clusters in the order their labels first appear.
group_by_label(points, labels) ==
    LET First(i) == \A j \in 1..(i - 1) : labels[j] /= labels[i]
        firsts == SelectSeq([i \in 1..Len(points) |-> i], First)
        Member(c) == LET In(i) == labels[i] = labels[firsts[c]]
                     IN  SelectSeq([i \in 1..Len(points) |-> i], In)
    IN  [c \in 1..Len(firsts) |->
            LET members == Member(c)
            IN  [m \in 1..Len(members) |->
                    [event_id |-> points[members[m]].id,
                     content_preview |-> points[members[m]].payload.content_preview]]]

\* get_clusters: the responses the call may give.
clusters_of(st) ==
    LET points == scroll(st, ScrollLimit)
    IN  IF too_few(points)
          THEN { << >> }
          ELSE { group_by_label(points, labels) :
                   labels \in fit_predict([i \in 1..Len(points) |-> points[i].vector],
                                          n_clusters(Len(points))) }

\* GET /api/clusters
get_clusters ==
    /\ \E clusters \in clusters_of(store) :
          lastQuery' = [op |-> "clusters", clusters |-> clusters]
    /\ UNCHANGED <<ingestVars, hubVars, restVars>>

\* A corpus of n ideas: the first of content "cats", then "kittens", then
\* "quantum".
Corpus(n, c, k) ==
    [id \in {PointId(i) : i \in 1..n} |->
        LET i == CHOOSE j \in 1..n : PointId(j) = id
        IN  PointStruct(id,
                        IF i <= c THEN "cats" ELSE IF i <= k THEN "kittens" ELSE "quantum",
                        IF i % 2 = 0 THEN "p1" ELSE "p2", i, << >>)]

\* ------------------------------------------------------------------- keys

\* A text of the page that is processed character by character is a
\* sequence of characters.
HexDigits == <<"0", "1", "2", "3", "4", "5", "6", "7", "8", "9",
               "a", "b", "c", "d", "e", "f">>

HexUpper == <<"0", "1", "2", "3", "4", "5", "6", "7", "8", "9",
              "A", "B", "C", "D", "E", "F">>

\* [0-9a-fA-F]
IsHexChar(c) == \E i \in 1..16 : HexDigits[i] = c \/ HexUpper[i] = c

HexVal(c) == (CHOOSE i \in 1..16 : HexDigits[i] = c \/ HexUpper[i] = c) - 1

\* parseInt(byte, 16) stored into a Uint8Array: the hex digits the chunk
\* starts with; NaN is stored as 0.
parseInt16(chunk) ==
    IF ~IsHexChar(chunk[1])
      THEN 0
      ELSE IF Len(chunk) = 1 \/ ~IsHexChar(chunk[2])
             THEN HexVal(chunk[1])
             ELSE 16 * HexVal(chunk[1]) + HexVal(chunk[2])

\* text.match(/.{1,2}/g): chunks of two characters, the last of one when the
\* length is odd.
match_pairs(text) ==
    [i \in 1..((Len(text) + 1) \div 2) |->
        SubSeq(text, 2 * i - 1, Min(2 * i, Len(text)))]

\* new Uint8Array(hex.match(/.{1,2}/g).map(byte => parseInt(byte, 16)))
hex_to_bytes(text) ==
    LET chunks == match_pairs(text)
    IN  [i \in 1..Len(chunks) |-> parseInt16(chunks[i])]

RECURSIVE join(_)
\* Array.join(''): the texts one after the other.
join(texts) == IF texts = << >> THEN << >> ELSE Head(texts) \o join(Tail(texts))

\* Variant: no padStart.
byte_hex_unpadded(b) ==
    IF b < 16 THEN << HexDigits[b + 1] >>
              ELSE << HexDigits[(b \div 16) + 1], HexDigits[(b % 16) + 1] >>

\* b.toString(16).padStart(2, '0')
byte_hex(b) == << HexDigits[(b \div 16) + 1], HexDigits[(b % 16) + 1] >>

\* Array.from(bytes).map(b => b.toString(16).padStart(2, '0')).join('')
bytes_to_hex(bytes) == join([i \in 1..Len(bytes) |-> byte_hex(bytes[i])])

\* The bech32 alphabet; a 5-bit word w is written Bech32Chars[w + 1].
Bech32Chars == <<"q", "p", "z", "r", "y", "9", "x", "8", "g", "f", "2", "t",
                 "v", "d", "w", "0", "s", "3", "j", "n", "5", "4", "k", "h",
                 "c", "e", "6", "m", "u", "a", "7", "l">>

IsBech32Char(c) == \E i \in 1..32 : Bech32Chars[i] = c

Bech32Val(c) == (CHOOSE i \in 1..32 : Bech32Chars[i] = c) - 1

\* Bit i, from 1, of a sequence of words of width bits each; 0 past the end.
BitOf(words, width, i) ==
    IF i > width * Len(words)
      THEN 0
      ELSE (words[((i - 1) \div width) + 1] \div (2 ^ (width - 1 - ((i - 1) % width)))) % 2

\* bech32.toWords: the bits of the bytes in groups of 5, the last group
\* padded with zeros.
to_words(bytes) ==
    [j \in 1..((8 * Len(bytes) + 4) \div 5) |->
          16 * BitOf(bytes, 8, 5 * j - 4) + 8 * BitOf(bytes, 8, 5 * j - 3)
        + 4 * BitOf(bytes, 8, 5 * j - 2) + 2 * BitOf(bytes, 8, 5 * j - 1)
        + BitOf(bytes, 8, 5 * j)]

\* bech32.fromWords: the bits of the words in groups of 8; the bits left
\* over are padding.
from_words(words) ==
    [i \in 1..((5 * Len(words)) \div 8) |->
          128 * BitOf(words, 5, 8 * i - 7) + 64 * BitOf(words, 5, 8 * i - 6)
        + 32 * BitOf(words, 5, 8 * i - 5) + 16 * BitOf(words, 5, 8 * i - 4)
        + 8 * BitOf(words, 5, 8 * i - 3) + 4 * BitOf(words, 5, 8 * i - 2)
        + 2 * BitOf(words, 5, 8 * i - 1) + BitOf(words, 5, 8 * i)]

\* fromWords rejects padding of more than 4 bits or with a bit set.
padding_ok(words) ==
    \A i \in (8 * ((5 * Len(words)) \div 8) + 1)..(5 * Len(words)) : BitOf(words, 5, i) = 0

RECURSIVE WeightedSum(_, _, _)
WeightedSum(words, j, k) ==
    IF j > Len(words) THEN 0 ELSE ((j + k) * words[j] + WeightedSum(words, j + 1, k)) % 32

\* The six check words of a bech32 text. The BCH code of bech32 is kept as a
\* checksum of the prefix and of every word with its place.
checksum(hrp, words) ==
    [k \in 1..6 |-> ((IF hrp = "nsec" THEN 7 ELSE 11) + WeightedSum(words, 1, k)) % 32]

NsecPrefix == <<"n", "s", "e", "c", "1">>

\* nip19.nsecEncode(bytes): "nsec1", the data words and the check words.
nsecEncode(bytes) ==
    LET words == to_words(bytes)
        all == words \o checksum("nsec", words)
    IN  NsecPrefix \o [i \in 1..Len(all) |-> Bech32Chars[all[i] + 1]]

\* text.startsWith(prefix)
startsWith(text, prefix) ==
    Len(text) >= Len(prefix) /\ SubSeq(text, 1, Len(prefix)) = prefix

\* nip19.decode of a text that starts with nsec1: throws on a character
\* outside the alphabet, a wrong checksum or bad padding.
nip19_decode(text) ==
    LET chars == SubSeq(text, Len(NsecPrefix) + 1, Len(text))
    IN  IF Len(chars) < 6 \/ \E i \in 1..Len(chars) : ~IsBech32Char(chars[i])
          THEN [ok |-> FALSE]
          ELSE LET all == [i \in 1..Len(chars) |-> Bech32Val(chars[i])]
                   words == SubSeq(all, 1, Len(all) - 6)
               IN  IF SubSeq(all, Len(all) - 5, Len(all)) /= checksum("nsec", words)
                        \/ ~padding_ok(words)
                     THEN [ok |-> FALSE]
                     ELSE [ok |-> TRUE, type |-> "nsec", data |-> from_words(words)]

\* getPublicKey(sk): throws unless sk is 32 bytes and a scalar of the curve
\* (not zero, below the group order). The point multiplication is kept as a
\* one-to-one map of the key, written as hex.
getPublicKey(sk) ==
    IF Len(sk) /= KeyBytes
         \/ (\A i \in 1..Len(sk) : sk[i] = 0)
         \/ (\A i \in 1..Len(sk) : sk[i] = 255)
      THEN [ok |-> FALSE]
      ELSE [ok |-> TRUE,
            pk |-> join([i \in 1..Len(sk) |->
                     << HexDigits[(((7 * sk[Len(sk) + 1 - i] + 3) % 256) \div 16) + 1],
                        HexDigits[(((7 * sk[Len(sk) + 1 - i] + 3) % 256) % 16) + 1] >>])]

RECURSIVE trim(_)
\* String.trim()
trim(text) ==
    IF text = << >> THEN text
    ELSE IF Head(text) = " " THEN trim(Tail(text))
    ELSE IF text[Len(text)] = " " THEN trim(SubSeq(text, 1, Len(text) - 1))
    ELSE text

\* Secret keys generateSecretKey may return.
ValidKeys == { [i \in 1..KeyBytes |-> (37 * i) % 256], [i \in 1..KeyBytes |-> 171] }

ZeroKey == [i \in 1..KeyBytes |-> 0]

\* The 64 hex digits a user writes for the key k.
KeyText(k) ==
    [i \in 1..(2 * KeyBytes) |->
        IF i % 2 = 1 THEN HexDigits[(k[(i + 1) \div 2] \div 16) + 1]
                     ELSE HexDigits[(k[i \div 2] % 16) + 1]]

\* The hex text in capitals.
Capitals(text) ==
    [i \in 1..Len(text) |->
        IF IsHexChar(text[i]) THEN HexUpper[HexVal(text[i]) + 1] ELSE text[i]]

\* What a user may put into the import field: for each key its nsec and its
\* hex, plain, in capitals and with blanks around; and texts that are no
\* key: the zero scalar, 63 digits, an nsec with its last character changed,
\* a bech32 text that is no nsec, blanks, nothing.
ImportTexts ==
    UNION { { nsecEncode(k), KeyText(k), Capitals(KeyText(k)),
              <<" ">> \o KeyText(k) \o <<" ", " ">>,
              SubSeq(KeyText(k), 1, 2 * KeyBytes - 1),
              SubSeq(nsecEncode(k), 1, Len(nsecEncode(k)) - 1) \o <<"q">>,
              SubSeq(nsecEncode(k), 1, Len(nsecEncode(k)) - 1) \o <<"p">>,
              <<"n", "p", "u", "b", "1">>
                  \o SubSeq(nsecEncode(k), Len(NsecPrefix) + 1, Len(nsecEncode(k))) } :
            k \in ValidKeys }
      \cup { KeyText(ZeroKey), <<" ", " ">>, << >> }

Identity(sk) == [pubkey |-> getPublicKey(sk).pk, privateKey |-> bytes_to_hex(sk)]

\* JSON.stringify({pubkey, privateKey}) stored under 'nostr_keys'.
Item(pubkey, privateKey) ==
    [present |-> TRUE, pubkey |-> pubkey, privateKey |-> privateKey]

\* window.NostrTools is there: !window.NostrTools is false.
Loaded == NostrTools = "loaded"

\* The dynamic import of nostr-tools resolves.
LibraryLoaded ==
    /\ NostrTools = "undefined"
    /\ NostrTools' = "loaded"
    /\ UNCHANGED <<app, localStorage, calls, lastCall>>
    /\ UNCHANGED <<ingestVars, hubVars, lastQuery, setupVars, relayVars>>

\* The dynamic import is rejected: window.NostrTools = null.
LibraryFailed ==
    /\ NostrTools = "undefined"
    /\ NostrTools' = "null"
    /\ UNCHANGED <<app, localStorage, calls, lastCall>>
    /\ UNCHANGED <<ingestVars, hubVars, lastQuery, setupVars, relayVars>>

\* Alpine runs init() when it builds the component, before the page takes
\* any input: init() has run when its watcher is set.
Started == app.watchers /= {}

\* Variant: only the public key is read.
read_keys_pubkey_only(a, stored) ==
    IF stored.present THEN [a EXCEPT !.pubkey = stored.pubkey] ELSE a

\* init: if (stored) { keys = JSON.parse(stored); pubkey, privateKey }
read_keys(a, stored) ==
    IF stored.present
      THEN [a EXCEPT !.pubkey = stored.pubkey, !.privateKey = stored.privateKey]
      ELSE a

\* init(): the stored keys are read and the watchers set; with the library
\* there nostrReady is set at once, else the call waits for it in steps of
\* 100 ms.
init ==
    /\ ~Started
    /\ LET read == [read_keys(app, localStorage) EXCEPT !.watchers = {"timeFilter"}]
       IN  IF Loaded
             THEN /\ app' = [read EXCEPT !.nostrReady = TRUE]
                  /\ lastCall' = [op |-> "init:ready"]
                  /\ UNCHANGED calls
             ELSE /\ app' = read
                  /\ calls' = Append(calls, [op |-> "init", pc |-> "poll"])
                  /\ lastCall' = [op |-> "init"]
    /\ UNCHANGED <<NostrTools, localStorage>>
    /\ UNCHANGED <<ingestVars, hubVars, lastQuery, setupVars, relayVars>>

\* list without its element i
Without(l, i) == SubSeq(l, 1, i - 1) \o SubSeq(l, i + 1, Len(l))

\* The 100 ms timer of init() fires: the call goes on to test the loop
\* condition.
InitTimer(i) ==
    /\ i \in 1..Len(calls)
    /\ calls[i] = [op |-> "init", pc |-> "poll"]
    /\ calls' = [calls EXCEPT ![i].pc = "test"]
    /\ lastCall' = [op |-> "init:timer"]
    /\ UNCHANGED <<app, NostrTools, localStorage>>
    /\ UNCHANGED <<ingestVars, hubVars, lastQuery, setupVars, relayVars>>

\* init() tests while (!window.NostrTools): with the library there the loop
\* ends and nostrReady is set; without it the next timer is set.
InitPoll(i) ==
    /\ i \in 1..Len(calls)
    /\ calls[i] = [op |-> "init", pc |-> "test"]
    /\ IF Loaded
         THEN /\ app' = [app EXCEPT !.nostrReady = TRUE]
              /\ calls' = Without(calls, i)
              /\ lastCall' = [op |-> "init:ready"]
         ELSE /\ calls' = [calls EXCEPT ![i].pc = "poll"]
              /\ lastCall' = [op |-> "init:wait"]
              /\ UNCHANGED app
    /\ UNCHANGED <<NostrTools, localStorage>>
    /\ UNCHANGED <<ingestVars, hubVars, lastQuery, setupVars, relayVars>>

\* generateKeys() with the library loaded; sk is what generateSecretKey
\* returns.
generateKeys(sk) ==
    /\ Started
    /\ NostrTools = "loaded"
    /\ app' = [app EXCEPT !.privateKey = bytes_to_hex(sk),
                          !.pubkey = getPublicKey(sk).pk]
    /\ localStorage' = Item(getPublicKey(sk).pk, bytes_to_hex(sk))
    /\ lastCall' = [op |-> "generateKeys", notified |-> "Identitaet erstellt!"]
    /\ UNCHANGED <<NostrTools, calls>>
    /\ UNCHANGED <<ingestVars, hubVars, lastQuery, setupVars, relayVars>>

\* generateKeys() without the library: the call waits 500 ms.
generateKeysEarly ==
    /\ Started
    /\ ~Loaded
    /\ Len(calls) < MaxCalls
    /\ calls' = Append(calls, [op |-> "generateKeys", pc |-> "wait"])
    /\ lastCall' = [op |-> "generateKeys", notified |-> "none"]
    /\ UNCHANGED <<app, NostrTools, localStorage>>
    /\ UNCHANGED <<ingestVars, hubVars, lastQuery, setupVars, relayVars>>

\* The 500 ms are over: without the library still, a notification and
\* return; else the keys are made.
generateKeysWake(i, sk) ==
    /\ i \in 1..Len(calls)
    /\ calls[i] = [op |-> "generateKeys", pc |-> "wait"]
    /\ calls' = Without(calls, i)
    /\ IF ~Loaded
         THEN /\ lastCall' = [op |-> "generateKeys:wake",
                              notified |-> "Nostr-Bibliothek konnte nicht geladen werden"]
              /\ UNCHANGED <<app, localStorage>>
         ELSE /\ app' = [app EXCEPT !.privateKey = bytes_to_hex(sk),
                                    !.pubkey = getPublicKey(sk).pk]
              /\ localStorage' = Item(getPublicKey(sk).pk, bytes_to_hex(sk))
              /\ lastCall' = [op |-> "generateKeys:wake",
                              notified |-> "Identitaet erstellt!"]
    /\ UNCHANGED NostrTools
    /\ UNCHANGED <<ingestVars, hubVars, lastQuery, setupVars, relayVars>>

\* openKeyModal(): the private key as nsec in the export field.
openKeyModal ==
    /\ Started
    /\ IF app.privateKey = << >> \/ ~Loaded
         THEN /\ lastCall' = [op |-> "openKeyModal", notified |-> "Keine Identitaet"]
              /\ UNCHANGED app
         ELSE LET skBytes == hex_to_bytes(app.privateKey)
              IN  IF Len(skBytes) /= KeyBytes
                    THEN /\ lastCall' = [op |-> "openKeyModal",
                                         notified |-> "Fehler beim Kodieren"]
                         /\ UNCHANGED app
                    ELSE /\ app' = [app EXCEPT !.keyExportValue = nsecEncode(skBytes),
                                               !.keyImportValue = << >>,
                                               !.showKeyModal = TRUE]
                         /\ lastCall' = [op |-> "openKeyModal", notified |-> "none"]
    /\ UNCHANGED <<NostrTools, localStorage, calls>>
    /\ UNCHANGED <<ingestVars, hubVars, lastQuery, setupVars, relayVars>>

\* The user fills the import field of the open modal.
TypeImport(text) ==
    /\ app.showKeyModal
    /\ app.keyImportValue /= text
    /\ app' = [app EXCEPT !.keyImportValue = text]
    /\ lastCall' = [op |-> "input"]
    /\ UNCHANGED <<NostrTools, localStorage, calls>>
    /\ UNCHANGED <<ingestVars, hubVars, lastQuery, setupVars, relayVars>>

\* The try block of importKey: the key bytes of the input, or the throw.
import_bytes(input) ==
    IF startsWith(input, NsecPrefix)
      THEN LET decoded == nip19_decode(input)
           IN  IF decoded.ok THEN [ok |-> TRUE, skBytes |-> decoded.data]
                             ELSE [ok |-> FALSE]
      ELSE IF Len(input) = 2 * KeyBytes /\ \A i \in 1..Len(input) : IsHexChar(input[i])
             THEN [ok |-> TRUE, skBytes |-> hex_to_bytes(input)]
             ELSE [ok |-> FALSE]

\* importKey()
importKey ==
    /\ app.showKeyModal
    /\ LET input == trim(app.keyImportValue)
           call == [op |-> "importKey", input |-> app.keyImportValue,
                    loaded |-> NostrTools = "loaded",
                    before |-> [pubkey |-> app.pubkey, privateKey |-> app.privateKey]]
           Fails(message) ==
               /\ lastCall' = call @@ [notified |-> message]
               /\ UNCHANGED <<app, localStorage>>
       IN  IF input = << >> THEN Fails("Bitte einen Schluessel eingeben")
           ELSE IF ~Loaded THEN Fails("Nostr-Bibliothek nicht geladen")
           ELSE IF ~import_bytes(input).ok THEN Fails("Ungueltiges Format")
           ELSE IF ~getPublicKey(import_bytes(input).skBytes).ok
                  THEN Fails("Ungueltiger Schluessel")
           ELSE LET skBytes == import_bytes(input).skBytes
                    pk == getPublicKey(skBytes).pk
                IN  /\ app' = [app EXCEPT !.privateKey = bytes_to_hex(skBytes),
                                          !.pubkey = pk,
                                          !.showKeyModal = FALSE]
                    /\ localStorage' = Item(pk, bytes_to_hex(skBytes))
                    /\ lastCall' = call @@ [notified |-> "Schluessel importiert!"]
    /\ UNCHANGED <<NostrTools, calls>>
    /\ UNCHANGED <<ingestVars, hubVars, lastQuery, setupVars, relayVars>>

\* closeKeyModal()
closeKeyModal ==
    /\ app.showKeyModal
    /\ app' = [app EXCEPT !.showKeyModal = FALSE, !.keyImportValue = << >>,
                          !.keyExportValue = << >>]
    /\ lastCall' = [op |-> "closeKeyModal"]
    /\ UNCHANGED <<NostrTools, localStorage, calls>>
    /\ UNCHANGED <<ingestVars, hubVars, lastQuery, setupVars, relayVars>>

\* ----------------------------------------------------------------- submit

\* What a user may write into the idea field.
IdeaTexts == {"", "  ", "idea", "more"}

\* Variant: the text is not trimmed.
IsBlank_untrimmed(text) == text = ""

\* !text.trim()
IsBlank(text) == text \in {"", "  "}

\* The values of the time filter.
TimeFilters == {"all", "7d"}

ExportFormats == {"json", "markdown"}

\* Search results a user may pick as a reference.
RefIdeas ==
    { [event_id |-> "a", content_preview |-> "cats", score |-> 900],
      [event_id |-> "b", content_preview |-> "kittens", score |-> 800],
      [event_id |-> "a", content_preview |-> "cats", score |-> 700] }

\* What crypto.randomUUID() may return.
UUIDs == {"u1", "u2"}

\* timeFilter !== 'all' ? time=<timeFilter> : nothing
time_param(timeFilter) ==
    IF timeFilter /= "all" THEN { <<"time", timeFilter>> } ELSE {}

\* The user fills the idea field.
TypeIdea(text) ==
    /\ Started
    /\ app.newIdea /= text
    /\ app' = [app EXCEPT !.newIdea = text]
    /\ lastCall' = [op |-> "input"]
    /\ UNCHANGED <<NostrTools, localStorage, calls>>
    /\ UNCHANGED <<ingestVars, hubVars, lastQuery, setupVars, relayVars>>

\* refreshIdeas(): the request htmx sends.
refresh_request(a) ==
    [method |-> "GET", path |-> "/partials/recent-ideas",
     params |-> time_param(a.timeFilter)]

\* refreshIdeas()
refreshIdeas ==
    /\ Started
    /\ lastCall' = [op |-> "refreshIdeas", requests |-> << refresh_request(app) >>]
    /\ UNCHANGED <<app, NostrTools, localStorage, calls>>
    /\ UNCHANGED <<ingestVars, hubVars, lastQuery, setupVars, relayVars>>

\* The user picks another time filter: the watcher init() set calls
\* refreshIdeas().
SetTimeFilter(value) ==
    /\ Started
    /\ app.timeFilter /= value
    /\ app' = [app EXCEPT !.timeFilter = value]
    /\ lastCall' = [op |-> "timeFilter",
                    requests |-> IF "timeFilter" \in app.watchers
                                   THEN << refresh_request(app') >> ELSE << >>]
    /\ UNCHANGED <<NostrTools, localStorage, calls>>
    /\ UNCHANGED <<ingestVars, hubVars, lastQuery, setupVars, relayVars>>

\* exportIdeas(format): the address the window is sent to.
exportIdeas(format) ==
    /\ Started
    /\ app' = [app EXCEPT !.showExportMenu = FALSE]
    /\ lastCall' = [op |-> "exportIdeas",
                    requests |-> << [method |-> "GET", path |-> "/api/export",
                                     params |-> { <<"format", format>> }
                                                  \cup time_param(app.timeFilter)] >>]
    /\ UNCHANGED <<NostrTools, localStorage, calls>>
    /\ UNCHANGED <<ingestVars, hubVars, lastQuery, setupVars, relayVars>>

\* Variant: pushed without looking for the event_id.
add_reference_always(refs, idea) ==
    Append(refs, [event_id |-> idea.event_id,
                  content_preview |-> idea.content_preview])

\* addReference: the list after the push.
add_reference(refs, idea) ==
    IF ~\E i \in 1..Len(refs) : refs[i].event_id = idea.event_id
      THEN Append(refs, [event_id |-> idea.event_id,
                         content_preview |-> idea.content_preview])
      ELSE refs

\* addReference(idea)
addReference(idea) ==
    /\ Started
    /\ app' = [app EXCEPT !.selectedReferences = add_reference(@, idea),
                          !.referenceSearchQuery = "",
                          !.referenceSearchResults = << >>]
    /\ lastCall' = [op |-> "addReference", idea |-> idea]
    /\ UNCHANGED <<NostrTools, localStorage, calls>>
    /\ UNCHANGED <<ingestVars, hubVars, lastQuery, setupVars, relayVars>>

\* removeReference(eventId)
removeReference(eventId) ==
    /\ Started
    /\ LET Other(r) == r.event_id /= eventId
       IN  app' = [app EXCEPT !.selectedReferences = SelectSeq(@, Other)]
    /\ lastCall' = [op |-> "removeReference", eventId |-> eventId]
    /\ UNCHANGED <<NostrTools, localStorage, calls>>
    /\ UNCHANGED <<ingestVars, hubVars, lastQuery, setupVars, relayVars>>

\* toggleReferenceSearch()
toggleReferenceSearch ==
    /\ Started
    /\ app' = IF app.showReferenceSearch
                THEN [app EXCEPT !.showReferenceSearch = FALSE,
                                 !.referenceSearchQuery = "",
                                 !.referenceSearchResults = << >>]
                ELSE [app EXCEPT !.showReferenceSearch = TRUE]
    /\ lastCall' = [op |-> "toggleReferenceSearch"]
    /\ UNCHANGED <<NostrTools, localStorage, calls>>
    /\ UNCHANGED <<ingestVars, hubVars, lastQuery, setupVars, relayVars>>

\* What a user may write into the search field of the reference search.
SearchTexts == {"", "  ", "cats", "kittens"}

\* The user fills the search field, which the open reference search shows.
TypeQuery(text) ==
    /\ Started
    /\ app.showReferenceSearch
    /\ app.referenceSearchQuery /= text
    /\ app' = [app EXCEPT !.referenceSearchQuery = text]
    /\ lastCall' = [op |-> "input"]
    /\ UNCHANGED <<NostrTools, localStorage, calls>>
    /\ UNCHANGED <<ingestVars, hubVars, lastQuery, setupVars, relayVars>>

\* data.results of GET /api/search for the query, best first.
Hits(q) ==
    IF q = "cats"
      THEN << [event_id |-> "a", content_preview |-> "cats", score |-> 900],
              [event_id |-> "b", content_preview |-> "kittens", score |-> 800] >>
      ELSE << [event_id |-> "b", content_preview |-> "kittens", score |-> 900] >>

\* data.results.filter(r => !selectedReferences.some(s => s.event_id === r.event_id))
unselected(results, refs) ==
    LET New(r) == ~\E k \in 1..Len(refs) : refs[k].event_id = r.event_id
    IN  SelectSeq(results, New)

\* searchReferences(), up to its first await or its return.
searchReferences ==
    /\ Started
    /\ app.showReferenceSearch
    /\ IF IsBlank(app.referenceSearchQuery)
         THEN /\ app' = [app EXCEPT !.referenceSearchResults = << >>]
              /\ lastCall' = [op |-> "searchReferences", outcome |-> "returned",
                              requests |-> << >>]
              /\ UNCHANGED calls
         ELSE /\ Len(calls) < MaxCalls
              /\ calls' = Append(calls, [op |-> "searchReferences", pc |-> "fetch",
                                         query |-> app.referenceSearchQuery])
              /\ lastCall' = [op |-> "searchReferences", outcome |-> "sent",
                              requests |-> << [method |-> "GET", path |-> "/api/search",
                                               params |-> { <<"q", app.referenceSearchQuery>>,
                                                            <<"limit", "5">> }] >>]
              /\ UNCHANGED app
    /\ UNCHANGED <<NostrTools, localStorage>>
    /\ UNCHANGED <<ingestVars, hubVars, lastQuery, setupVars, relayVars>>

\* searchReferences after await fetch: a response, or the rejection, which
\* the catch block logs.
SearchResponse(i, resolved) ==
    /\ i \in 1..Len(calls)
    /\ calls[i].op = "searchReferences"
    /\ calls[i].pc = "fetch"
    /\ calls' = IF resolved THEN [calls EXCEPT ![i].pc = "json"] ELSE Without(calls, i)
    /\ lastCall' = [op |-> "searchReferences:fetch", index |-> i,
                    query |-> calls[i].query,
                    outcome |-> IF resolved THEN "response" ELSE "error"]
    /\ UNCHANGED <<app, NostrTools, localStorage>>
    /\ UNCHANGED <<ingestVars, hubVars, lastQuery, setupVars, relayVars>>

\* searchReferences after await response.json(): the results that are not
\* selected are shown; a body that is no JSON or has no results throws, and
\* the catch block logs.
SearchJson(i, valid) ==
    /\ i \in 1..Len(calls)
    /\ calls[i].op = "searchReferences"
    /\ calls[i].pc = "json"
    /\ app' = IF valid
                THEN [app EXCEPT !.referenceSearchResults =
                                     unselected(Hits(calls[i].query),
                                                app.selectedReferences)]
                ELSE app
    /\ calls' = Without(calls, i)
    /\ lastCall' = [op |-> "searchReferences:json", index |-> i,
                    query |-> calls[i].query,
                    outcome |-> IF valid THEN "results" ELSE "error"]
    /\ UNCHANGED <<NostrTools, localStorage>>
    /\ UNCHANGED <<ingestVars, hubVars, lastQuery, setupVars, relayVars>>

\* submitIdea: the tags of the event.
submit_tags(uuid, refs) ==
    << <<"d", uuid>>, <<"t", "idea">>, <<"client", "ideaflow">> >>
      \o [i \in 1..Len(refs) |-> <<"e", refs[i].event_id>>]

\* finalizeEvent(eventTemplate, skBytes): throws for bytes that are no
\* secret key; else the template with pubkey, id and sig. The hash and the
\* signature are kept as marks.
finalizeEvent(eventTemplate, skBytes) ==
    IF ~getPublicKey(skBytes).ok
      THEN [ok |-> FALSE]
      ELSE [ok |-> TRUE,
            event |-> eventTemplate @@ [pubkey |-> getPublicKey(skBytes).pk,
                                        id |-> "sha256", sig |-> "schnorr"]]

\* submitIdea, the try block up to fetch: the signed event, or the throw
\* (match returns null for an empty key; finalizeEvent throws).
signed_event(a, uuid) ==
    IF a.privateKey = << >>
      THEN [ok |-> FALSE]
      ELSE finalizeEvent([kind |-> 30023, created_at |-> "now",
                          tags |-> submit_tags(uuid, a.selectedReferences),
                          content |-> a.newIdea],
                         hex_to_bytes(a.privateKey))

\* Variant: isSubmitting is left as it is.
submit_finally_stuck(a) == a

\* submitIdea: finally
submit_finally(a) == [a EXCEPT !.isSubmitting = FALSE]

\* submitIdea: the catch block, and the else branch of response.ok
submit_error(a) == [a EXCEPT !.submitStatus = "error"]

\* submitIdea: response.ok
submit_ok(a) ==
    [a EXCEPT !.newIdea = "", !.selectedReferences = << >>,
              !.showReferenceSearch = FALSE, !.submitStatus = "ok"]

\* submitIdea(), up to its first await or its return; uuid is what
\* crypto.randomUUID() returns.
submitIdea(uuid) ==
    /\ Started
    /\ LET Returns(message) ==
               /\ lastCall' = [op |-> "submitIdea", outcome |-> "returned",
                               requests |-> << >>, notified |-> message]
               /\ UNCHANGED <<app, calls>>
           signed == signed_event(app, uuid)
       IN  IF IsBlank(app.newIdea) THEN Returns("Bitte gib eine Idee ein")
           ELSE IF app.pubkey = << >>
                  THEN Returns("Bitte erstelle zuerst eine Identitaet")
           ELSE IF ~Loaded THEN Returns("Nostr-Bibliothek nicht bereit")
           ELSE IF ~signed.ok
                  THEN /\ app' = submit_finally(submit_error(
                                     [app EXCEPT !.isSubmitting = TRUE,
                                                 !.submitStatus = "null"]))
                       /\ lastCall' = [op |-> "submitIdea", outcome |-> "error",
                                       requests |-> << >>,
                                       notified |-> "Netzwerkfehler beim Speichern"]
                       /\ UNCHANGED calls
           ELSE /\ Len(calls) < MaxCalls
                /\ app' = [app EXCEPT !.isSubmitting = TRUE, !.submitStatus = "null"]
                /\ calls' = Append(calls, [op |-> "submitIdea", pc |-> "fetch",
                                           event |-> signed.event])
                /\ lastCall' = [op |-> "submitIdea", outcome |-> "sent",
                                requests |-> << [method |-> "POST",
                                                 path |-> "/api/ideas",
                                                 params |-> {},
                                                 body |-> signed.event] >>,
                                notified |-> "none"]
    /\ UNCHANGED <<NostrTools, localStorage>>
    /\ UNCHANGED <<ingestVars, hubVars, lastQuery, setupVars, relayVars>>

\* What fetch comes back with: an OK response, another response, a
\* rejection.
Responses == {"ok", "not_ok", "rejected"}

\* submitIdea after await fetch.
SubmitResponse(i, response) ==
    /\ i \in 1..Len(calls)
    /\ calls[i].op = "submitIdea"
    /\ calls[i].pc = "fetch"
    /\ CASE response = "ok" ->
              /\ app' = submit_finally(submit_ok(app))
              /\ calls' = Append(Without(calls, i), [op |-> "setTimeout", pc |-> "2000"])
              /\ lastCall' = [op |-> "submitIdea:fetch", outcome |-> "ok",
                              event |-> calls[i].event,
                              requests |-> << [method |-> "GET",
                                               path |-> "/partials/recent-ideas",
                                               params |-> {}] >>]
         [] response = "not_ok" ->
              /\ calls' = [calls EXCEPT ![i].pc = "json"]
              /\ lastCall' = [op |-> "submitIdea:fetch", outcome |-> "not_ok",
                              event |-> calls[i].event, requests |-> << >>]
              /\ UNCHANGED app
         [] response = "rejected" ->
              /\ app' = submit_finally(submit_error(app))
              /\ calls' = Without(calls, i)
              /\ lastCall' = [op |-> "submitIdea:fetch", outcome |-> "error",
                              event |-> calls[i].event, requests |-> << >>]
    /\ UNCHANGED <<NostrTools, localStorage>>
    /\ UNCHANGED <<ingestVars, hubVars, lastQuery, setupVars, relayVars>>

\* submitIdea after await response.json().catch(...) of a response that is
\* not OK.
SubmitJson(i) ==
    /\ i \in 1..Len(calls)
    /\ calls[i].op = "submitIdea"
    /\ calls[i].pc = "json"
    /\ app' = submit_finally(submit_error(app))
    /\ calls' = Without(calls, i)
    /\ lastCall' = [op |-> "submitIdea:json", outcome |-> "error",
                    event |-> calls[i].event, requests |-> << >>]
    /\ UNCHANGED <<NostrTools, localStorage>>
    /\ UNCHANGED <<ingestVars, hubVars, lastQuery, setupVars, relayVars>>

\* setTimeout(() => { this.submitStatus = null; }, 2000) fires.
StatusTimer(i) ==
    /\ i \in 1..Len(calls)
    /\ calls[i].op = "setTimeout"
    /\ app' = [app EXCEPT !.submitStatus = "null"]
    /\ calls' = Without(calls, i)
    /\ lastCall' = [op |-> "setTimeout"]
    /\ UNCHANGED <<NostrTools, localStorage>>
    /\ UNCHANGED <<ingestVars, hubVars, lastQuery, setupVars, relayVars>>

\* ------------------------------------------------------- relay connection

\* The events the filter of the "ideas" subscription lets through:
\* {"kinds": [30023], "#t": ["idea"]}.
IdeaEvents ==
    {e \in Events : \E i \in 1..Len(e.tags) : e.tags[i] = <<"t", "idea">>}

\* Whether the subscription's filter lets the event through: the "ideas"
\* filter, or {"ids": [event_id]} of a fetch.
Matches(sub, ev) ==
    IF sub.filter = "ideas" THEN ev \in IdeaEvents ELSE ev.id = sub.filter

\* sub_id = f"fetch-{id(filters)}" of the n-th call.
FetchSubId(n) ==
    CASE n = 1 -> "fetch-1" [] n = 2 -> "fetch-2" [] n = 3 -> "fetch-3"
      [] OTHER -> "fetch-4"

\* The subscriptions the relay holds for a connection.
SubsOf(conn) == {sub \in relay.subs : sub.conn = conn}

RECURSIVE FramesFor(_, _)
\* One EVENT frame of ev for each subscription of the set that matches,
\* "ideas" first.
FramesFor(subs, ev) ==
    IF subs = {}
      THEN << >>
      ELSE LET sub == IF \E x \in subs : x.sub_id = "ideas"
                        THEN CHOOSE x \in subs : x.sub_id = "ideas"
                        ELSE CHOOSE x \in subs : TRUE
               rest == FramesFor(subs \ {sub}, ev)
           IN  IF Matches(sub, ev)
                 THEN << <<"EVENT", sub.sub_id, ev>> >> \o rest
                 ELSE rest

RECURSIVE FramesForStored(_, _)
\* The EVENT frames of the stored events a new subscription matches, oldest
\* first.
FramesForStored(sub, events) ==
    IF events = {}
      THEN << >>
      ELSE LET ev == CHOOSE x \in events :
                         \A y \in events : x.created_at <= y.created_at
               rest == FramesForStored(sub, events \ {ev})
           IN  IF Matches(sub, ev)
                 THEN << <<"EVENT", sub.sub_id, ev>> >> \o rest
                 ELSE rest

\* Somebody publishes an event to the relay: the relay keeps it and sends it
\* to the client for each subscription of the open connection that matches.
\* unsent: the idea events published while listen() was connected and
\* reading that the relay had no "ideas" subscription to send for.
RelayPublish(ev) ==
    /\ ev \notin relay.events
    /\ Cardinality(relay.events) < MaxRelayEvents
    /\ LET subs == IF ws.open THEN SubsOf(ws.conn) ELSE {}
           frames == FramesFor(subs, ev)
           ideas == \E sub \in subs : sub.sub_id = "ideas"
       IN  /\ inbox' = inbox \o frames
           /\ relay' = [relay EXCEPT
                  !.events = @ \cup {ev},
                  !.sent = IF ideas THEN Append(@, ev) ELSE @,
                  !.unsent = IF ws.open /\ listenTask = "running" /\ ~ideas
                               THEN @ \cup {ev} ELSE @]
    /\ UNCHANGED <<store, listenTask, log, hubVars, lastQuery, setupVars, frontVars,
                   ws, fetch>>

\* listen() reads a frame and dispatches it. up: whether Qdrant answers the
\* upsert of this call.
ListenRecv(up) ==
    /\ listenTask = "running"
    /\ inbox /= << >>
    /\ LET data == Head(inbox)
           r == dispatch(data, Len(log) + 1, store, up, queue, event_queues)
       IN  /\ ~r.waits
           /\ store' = r.store
           /\ queue' = r.queue
           /\ log' = IF r.handled /\ ~r.raised THEN Append(log, data[3]) ELSE log
           /\ listenTask' = IF r.raised THEN "crashed" ELSE "running"
    /\ inbox' = Tail(inbox)
    /\ UNCHANGED <<event_queues, gen, connected, delivered, subAt, lastQuery,
                   setupVars, frontVars, relayVars>>

\* The connection to the relay closes: the relay drops the subscriptions of
\* the connection; the frames already received can still be read.
ConnClose ==
    /\ ws.open
    /\ ws' = [ws EXCEPT !.open = FALSE]
    /\ relay' = [relay EXCEPT !.subs = @ \ SubsOf(ws.conn)]
    /\ UNCHANGED <<ingestVars, hubVars, lastQuery, setupVars, frontVars, fetch>>

\* listen(): ws.recv() raises websockets.ConnectionClosed; the except
\* block calls connect().
ListenClosed ==
    /\ listenTask = "running"
    /\ ~ws.open
    /\ inbox = << >>
    /\ listenTask' = "connecting"
    /\ UNCHANGED <<store, inbox, log, hubVars, lastQuery, setupVars, frontVars,
                   relayVars>>

\* listen(): await self.connect() in the except block. With the relay
\* reachable self.ws is the new connection and the loop goes on; else
\* connect() raises out of the except block and the task ends.
ListenConnect(reachable) ==
    /\ listenTask = "connecting"
    /\ ws.conn < MaxConns
    /\ IF reachable
         THEN /\ ws' = [conn |-> ws.conn + 1, open |-> TRUE]
              /\ listenTask' = "running"
         ELSE /\ listenTask' = "ended"
              /\ UNCHANGED ws
    /\ UNCHANGED <<store, inbox, log, hubVars, lastQuery, setupVars, frontVars,
                   relay, fetch>>

\* fetch_events([{"ids": [event_id]}]) up to its first recv: self.ws is set,
\* the REQ is sent; on a closed connection send raises ConnectionClosed. The
\* relay keeps the subscription and answers with the stored events that
\* match and EOSE.
FetchStart(event_id) ==
    /\ fetch.pc /= "recv"
    /\ fetch.n < MaxFetches
    /\ LET sub_id == FetchSubId(fetch.n + 1)
           sub == [conn |-> ws.conn, sub_id |-> sub_id, filter |-> event_id]
           call == [NoFetch EXCEPT !.sub_id = sub_id, !.n = fetch.n + 1]
       IN  IF ~ws.open
             THEN /\ fetch' = [call EXCEPT !.pc = "raised",
                                           !.error = "ConnectionClosed"]
                  /\ UNCHANGED <<inbox, relay>>
             ELSE /\ fetch' = [call EXCEPT !.pc = "recv"]
                  /\ relay' = [relay EXCEPT !.subs = @ \cup {sub}]
                  /\ inbox' = inbox
                               \o FramesForStored(sub, relay.events)
                               \o << <<"EOSE", sub_id>> >>
    /\ UNCHANGED <<store, listenTask, log, hubVars, lastQuery, setupVars,
                   frontVars, ws>>

\* fetch_events: await self.ws.recv() and the rest of the loop body.
\* websockets 12.0 lets one coroutine wait in recv(): with listen() waiting
\* there, which it does whenever it runs, the call raises RuntimeError. With
\* no listener, the call reads the next frame: an EVENT of its subscription
\* is kept, EOSE of any subscription ends the loop (CLOSE is sent and the
\* events are returned), every other frame is dropped.
FetchRecv ==
    /\ fetch.pc = "recv"
    /\ IF listenTask = "running"
         THEN /\ fetch' = [fetch EXCEPT !.pc = "raised", !.error = "RuntimeError"]
              /\ UNCHANGED <<inbox, relay>>
         ELSE IF inbox = << >>
           THEN /\ ~ws.open
                /\ fetch' = [fetch EXCEPT !.pc = "raised",
                                          !.error = "ConnectionClosed"]
                /\ UNCHANGED <<inbox, relay>>
           ELSE LET data == Head(inbox)
                    got == [fetch EXCEPT !.read = Append(@, data)]
                IN  /\ inbox' = Tail(inbox)
                    /\ IF data[1] = "EVENT" /\ data[2] = fetch.sub_id
                         THEN /\ fetch' = [got EXCEPT !.events = Append(@, data[3])]
                              /\ UNCHANGED relay
                         ELSE IF data[1] = "EOSE"
                           THEN IF ws.open
                                  THEN /\ fetch' = [got EXCEPT !.pc = "returned"]
                                       /\ relay' = [relay EXCEPT !.subs =
                                              {sub \in @ : ~(sub.conn = ws.conn
                                                   /\ sub.sub_id = fetch.sub_id)}]
                                  ELSE /\ fetch' = [got EXCEPT
                                              !.pc = "raised",
                                              !.error = "ConnectionClosed"]
                                       /\ UNCHANGED relay
                           ELSE /\ fetch' = got
                                /\ UNCHANGED relay
    /\ UNCHANGED <<store, listenTask, log, hubVars, lastQuery, setupVars,
                   frontVars, ws>>

\* ----------------------------------------------------------- specification

Next ==
    \/ \E ev \in LiveEvents, up \in BOOLEAN : listen(ev, up, MaxEvents)
    \/ \E ev \in LiveEvents : RelaySendUnread(ev)
    \/ \E s \in SubIds : stream(s)
    \/ \E s \in SubIds : Disconnect(s)
    \/ \E s \in SubIds : GenDeliver(s)
    \/ \E s \in SubIds : GenPing(s)
    \/ \E s \in SubIds : GenClose(s)
    \/ \E s \in SubIds : GenAbandon(s)

Spec == Init /\ [][Next]_vars

\* The retrieval calls over the stores that ingestion builds, no stream open.
QueryNext ==
    \/ \E ev \in Events, up \in BOOLEAN : listen(ev, up, MaxIngest)
    \/ \E id \in QueryIds, limit \in 0..MaxLimit : get_related(id, limit)

QuerySpec == Init /\ [][QueryNext]_vars

\* The search calls over the stores that ingestion builds, no stream open.
SearchNext ==
    \/ \E ev \in Events, up \in BOOLEAN : listen(ev, up, MaxSearchIngest)
    \/ \E q \in QueryTexts, limit \in 1..MaxLimit, pubkey \in PubkeyArgs :
          search_ideas(q, limit, pubkey)
    \/ \E q \in QueryTexts : search_results_partial(q)

SearchSpec == Init /\ [][SearchNext]_vars

\* The streams alone, with unsubscribe called for streams that are gone.
HubNext ==
    \/ \E s \in SubIds : stream(s)
    \/ \E s \in SubIds : Disconnect(s)
    \/ \E s \in SubIds : GenPing(s)
    \/ \E s \in SubIds : GenClose(s)
    \/ \E s \in SubIds : GenAbandon(s)
    \/ \E s \in SubIds : unsubscribe(s)

HubSpec == Init /\ [][HubNext]_vars

\* Startup: init_collection called again and again, interrupted or not, and
\* the service ingesting once a call has completed.
SetupInit ==
    /\ collection = NoCollection
    /\ startup = [pc |-> "idle", done |-> 0]
    /\ FrontInit
    /\ store = << >>
    /\ inbox = << >>
    /\ listenTask = "running"
    /\ RelayInit
    /\ log = << >>
    /\ event_queues = << >>
    /\ queue = [s \in SubIds |-> << >>]
    /\ gen = [s \in SubIds |-> "none"]
    /\ connected = [s \in SubIds |-> FALSE]
    /\ delivered = [s \in SubIds |-> << >>]
    /\ subAt = [s \in SubIds |-> 0]
    /\ lastQuery = NoQuery

\* The service runs: lifespan is past init_collection.
Serving == startup.pc = "idle" /\ startup.done >= 1 /\ collection.exists

ServeIngest(ev) == Serving /\ listen(ev, TRUE, MaxSetupIngest)

SetupNext ==
    \/ InitBegin
    \/ InitCreateCollection
    \/ InitIndexPubkey
    \/ InitIndexCreatedAt
    \/ InitInterrupted
    \/ \E ev \in Events : ServeIngest(ev)

SetupSpec == SetupInit /\ [][SetupNext]_vars

\* The resonance check over the stores that ingestion builds.
ResonanceNext ==
    \/ \E ev \in Events, up \in BOOLEAN : listen(ev, up, MaxSearchIngest)
    \/ \E ev \in Events, pubkey \in {"p1", "p2"} : CheckResonance(ev, pubkey)

ResonanceSpec == Init /\ [][ResonanceNext]_vars

\* Every operation on the store, over a store that is empty or holds the
\* ideas of earlier runs.
FrameInit ==
    /\ \E n \in {0, MaxFramePoints} : store = Corpus(n, n \div 3, (2 * n) \div 3)
    /\ collection = FullCollection
    /\ startup = [pc |-> "idle", done |-> 1]
    /\ FrontInit
    /\ inbox = << >>
    /\ listenTask = "running"
    /\ RelayInit
    /\ log = << >>
    /\ event_queues = << >>
    /\ queue = [s \in SubIds |-> << >>]
    /\ gen = [s \in SubIds |-> "none"]
    /\ connected = [s \in SubIds |-> FALSE]
    /\ delivered = [s \in SubIds |-> << >>]
    /\ subAt = [s \in SubIds |-> 0]
    /\ lastQuery = NoQuery

FrameNext ==
    \/ \E ev \in Events, up \in BOOLEAN : listen(ev, up, MaxFrameIngest)
    \/ \E id \in QueryIds, limit \in 0..MaxFrameLimit : get_related(id, limit)
    \/ \E q \in QueryTexts, limit \in 1..MaxFrameLimit, pubkey \in PubkeyArgs :
          search_ideas(q, limit, pubkey)
    \/ get_clusters

FrameSpec == FrameInit /\ [][FrameNext]_vars

\* The page and its keys: a first visit, or a visit with the keys of an
\* earlier one in localStorage.
KeyInit ==
    /\ app = AppData
    /\ NostrTools = "undefined"
    /\ localStorage \in {NoItem} \cup
           {Item(Identity(k).pubkey, Identity(k).privateKey) : k \in ValidKeys}
    /\ calls = << >>
    /\ lastCall = NoCall
    /\ collection = FullCollection
    /\ startup = [pc |-> "idle", done |-> 1]
    /\ store = << >>
    /\ inbox = << >>
    /\ listenTask = "running"
    /\ RelayInit
    /\ log = << >>
    /\ event_queues = << >>
    /\ queue = [s \in SubIds |-> << >>]
    /\ gen = [s \in SubIds |-> "none"]
    /\ connected = [s \in SubIds |-> FALSE]
    /\ delivered = [s \in SubIds |-> << >>]
    /\ subAt = [s \in SubIds |-> 0]
    /\ lastQuery = NoQuery

KeyNext ==
    \/ LibraryLoaded
    \/ LibraryFailed
    \/ init
    \/ \E i \in 1..MaxCalls : InitTimer(i)
    \/ \E i \in 1..MaxCalls : InitPoll(i)
    \/ \E sk \in ValidKeys : generateKeys(sk)
    \/ generateKeysEarly
    \/ \E i \in 1..MaxCalls, sk \in ValidKeys : generateKeysWake(i, sk)
    \/ openKeyModal
    \/ \E text \in ImportTexts : TypeImport(text)
    \/ importKey
    \/ closeKeyModal

KeySpec == KeyInit /\ [][KeyNext]_vars

\* The same with what the browser guarantees: the import settles, init() is
\* run, a timer that was set fires, and a call that was woken runs.
KeyFairSpec ==
    /\ KeySpec
    /\ WF_vars(LibraryLoaded \/ LibraryFailed)
    /\ WF_vars(init)
    /\ WF_vars(\E i \in 1..MaxCalls : InitTimer(i))
    /\ WF_vars(\E i \in 1..MaxCalls : InitPoll(i))

\* The page before init() with the item items holds one of.
PageInit(items) ==
    /\ app = AppData
    /\ NostrTools = "undefined"
    /\ localStorage \in items
    /\ calls = << >>
    /\ lastCall = NoCall
    /\ collection = FullCollection
    /\ startup = [pc |-> "idle", done |-> 1]
    /\ store = << >>
    /\ inbox = << >>
    /\ listenTask = "running"
    /\ RelayInit
    /\ log = << >>
    /\ event_queues = << >>
    /\ queue = [s \in SubIds |-> << >>]
    /\ gen = [s \in SubIds |-> "none"]
    /\ connected = [s \in SubIds |-> FALSE]
    /\ delivered = [s \in SubIds |-> << >>]
    /\ subAt = [s \in SubIds |-> 0]
    /\ lastQuery = NoQuery

\* The keys generateKeys stored on an earlier visit.
StoredKeys == Item(Identity([i \in 1..KeyBytes |-> 171]).pubkey,
                   Identity([i \in 1..KeyBytes |-> 171]).privateKey)

\* An item the page did not write: localStorage is open to other scripts of
\* the origin and to the user. Its private key is no secret key.
ForeignKeys == Item(StoredKeys.pubkey, KeyText(ZeroKey))

\* Submitting: a first visit without keys, a visit with stored keys, a visit
\* with an item that does not sign.
SubmitInit == PageInit({NoItem, StoredKeys, ForeignKeys})

SubmitNext ==
    \/ LibraryLoaded
    \/ init
    \/ \E i \in 1..MaxCalls : InitTimer(i)
    \/ \E i \in 1..MaxCalls : InitPoll(i)
    \/ \E text \in IdeaTexts : TypeIdea(text)
    \/ \E idea \in {r \in RefIdeas : r.event_id = "a"} : addReference(idea)
    \/ \E uuid \in {"u1"} : submitIdea(uuid)
    \/ \E i \in 1..MaxCalls, response \in Responses : SubmitResponse(i, response)
    \/ \E i \in 1..MaxCalls : SubmitJson(i)
    \/ \E i \in 1..MaxCalls : StatusTimer(i)

SubmitSpec == SubmitInit /\ [][SubmitNext]_vars

\* References: picked, dropped, and sent with an idea.
RefInit == PageInit({StoredKeys})

RefNext ==
    \/ LibraryLoaded
    \/ init
    \/ \E i \in 1..MaxCalls : InitTimer(i)
    \/ \E i \in 1..MaxCalls : InitPoll(i)
    \/ \E text \in {"idea"} : TypeIdea(text)
    \/ \E idea \in RefIdeas : addReference(idea)
    \/ \E eventId \in {r.event_id : r \in RefIdeas} : removeReference(eventId)
    \/ \E uuid \in UUIDs : submitIdea(uuid)
    \/ \E i \in 1..MaxCalls : SubmitResponse(i, "ok")

RefSpec == RefInit /\ [][RefNext]_vars

\* The relay, the connection, listen() and fetch_events after startup.
RelayNext ==
    \/ \E ev \in IdeaEvents : RelayPublish(ev)
    \/ \E up \in BOOLEAN : ListenRecv(up)
    \/ ConnClose
    \/ ListenClosed
    \/ \E reachable \in BOOLEAN : ListenConnect(reachable)
    \/ \E event_id \in {e.id : e \in IdeaEvents} : FetchStart(event_id)
    \/ FetchRecv

RelaySpec == Init /\ [][RelayNext]_vars

\* The reference search: queries, their responses, and the picks.
RefSearchInit == PageInit({StoredKeys})

RefSearchNext ==
    \/ LibraryLoaded
    \/ init
    \/ \E i \in 1..MaxCalls : InitTimer(i)
    \/ \E i \in 1..MaxCalls : InitPoll(i)
    \/ toggleReferenceSearch
    \/ \E text \in SearchTexts : TypeQuery(text)
    \/ searchReferences
    \/ \E i \in 1..MaxCalls, resolved \in BOOLEAN : SearchResponse(i, resolved)
    \/ \E i \in 1..MaxCalls, valid \in BOOLEAN : SearchJson(i, valid)
    \/ \E k \in 1..Len(app.referenceSearchResults) :
           addReference(app.referenceSearchResults[k])
    \/ \E eventId \in {r.event_id : r \in RefIdeas} : removeReference(eventId)

RefSearchSpec == RefSearchInit /\ [][RefSearchNext]_vars

\* The time filter and the requests for the list and the export.
FilterInit == PageInit({StoredKeys})

FilterNext ==
    \/ LibraryLoaded
    \/ init
    \/ \E i \in 1..MaxCalls : InitTimer(i)
    \/ \E i \in 1..MaxCalls : InitPoll(i)
    \/ \E value \in TimeFilters : SetTimeFilter(value)
    \/ refreshIdeas
    \/ \E format \in ExportFormats : exportIdeas(format)
    \/ \E text \in {"idea"} : TypeIdea(text)
    \/ \E uuid \in {"u1"} : submitIdea(uuid)
    \/ \E i \in 1..MaxCalls, response \in Responses : SubmitResponse(i, response)
    \/ \E i \in 1..MaxCalls : SubmitJson(i)
    \/ \E i \in 1..MaxCalls : StatusTimer(i)

FilterSpec == FilterInit /\ [][FilterNext]_vars

\* The clustering call over a corpus that ingestion has built.
ClusterInit ==
    /\ collection = FullCollection
    /\ startup = [pc |-> "idle", done |-> 1]
    /\ FrontInit
    /\ \E n \in 0..MaxPoints : \E k \in 0..n : \E c \in 0..k : store = Corpus(n, c, k)
    /\ inbox = << >>
    /\ listenTask = "running"
    /\ RelayInit
    /\ log = << >>
    /\ event_queues = << >>
    /\ queue = [s \in SubIds |-> << >>]
    /\ gen = [s \in SubIds |-> "none"]
    /\ connected = [s \in SubIds |-> FALSE]
    /\ delivered = [s \in SubIds |-> << >>]
    /\ subAt = [s \in SubIds |-> 0]
    /\ lastQuery = NoQuery

ClusterNext == get_clusters

ClusterSpec == ClusterInit /\ [][ClusterNext]_vars

\* ------------------------------------------------------------------ claims

Entries(s) == delivered[s] \o queue[s]

Occurrences(seq, n) == Cardinality({i \in 1..Len(seq) : seq[i].seq = n})

\* Streams whose queue exists: registered, and not yet removed by finally.
Open(s) == gen[s] \in {"created", "running", "abandoned"}

\* C1: related(id, limit) never returns id itself, whatever the limit and
\* the store, also when other ideas have the vector of id.
C1_RelatedExcludesSource ==
    lastQuery.op = "related" =>
        \A i \in 1..Len(lastQuery.results) : lastQuery.results[i].id /= lastQuery.id

\* related("a", limit >= 1) answered from a store where "b" has the vector of "a".
C1_Witness ==
    /\ lastQuery.op = "related"
    /\ lastQuery.id = "a"
    /\ lastQuery.limit >= 1
    /\ {"a", "b"} \subseteq DOMAIN store
    /\ store["a"].vector = store["b"].vector
    /\ Len(lastQuery.results) >= 1

\* C2: an event is published only after its upsert completed: every event
\* pending in a queue, or delivered from one, has its id in the store.
C2_PublishedOnlyAfterStored ==
    \A s \in SubIds : \A i \in 1..Len(Entries(s)) :
        Entries(s)[i].event.id \in DOMAIN store

\* A stream holds a delivered and a pending event.
C2_Witness ==
    \E s \in SubIds : delivered[s] /= << >> /\ queue[s] /= << >>

\* The last event of that id that handle_new_idea handled to the end.
LastIngested(id) ==
    log[CHOOSE i \in 1..Len(log) :
            log[i].id = id /\ \A j \in (i + 1)..Len(log) : log[j].id /= id]

\* C3: the store holds one point for each ingested id and for no other;
\* its vector is the embedding of the content of the last event ingested
\* with that id and its payload is that event's. Nothing of an earlier
\* version remains.
C3_LastWriteWins ==
    /\ DOMAIN store = {log[i].id : i \in 1..Len(log)}
    /\ \A id \in DOMAIN store :
          LET ev == LastIngested(id)
              pt == store[id]
          IN  /\ pt.id = id
              /\ pt.vector = create_embedding(ev.content)
              /\ pt.payload.pubkey = ev.pubkey
              /\ pt.payload.created_at = ev.created_at
              /\ {pt.payload.references[i] : i \in 1..Len(pt.payload.references)}
                   = {ev.tags[i][2] : i \in {j \in 1..Len(ev.tags) : ev.tags[j][1] = "e"}}
              /\ pt.payload.content_preview.text = ev.content
              /\ pt.payload.content_preview.len <= PreviewLen

\* An id was ingested twice, the second time with another content.
C3_Witness ==
    \E i, j \in 1..Len(log) :
        i < j /\ log[i].id = log[j].id /\ log[i].content /= log[j].content

\* C4: a stream registered before an ingest holds the event exactly once,
\* delivered or still pending for its next get; a stream registered after the
\* ingest completed never holds it.
C4_ExactlyOncePerSubscriber ==
    \A s \in SubIds : Open(s) =>
        /\ \A i \in 1..Len(Entries(s)) : Entries(s)[i].seq \in 1..Len(log)
        /\ \A n \in 1..Len(log) :
              Occurrences(Entries(s), n) = IF n > subAt[s] THEN 1 ELSE 0
        /\ \A n \in 1..Len(log) : Occurrences(delivered[s], n) <= 1

\* Event 1 was delivered to a stream registered before it, and a stream
\* registered after it is running.
C4_Witness ==
    \E s, t \in SubIds :
        /\ subAt[s] = 0 /\ Occurrences(delivered[s], 1) = 1
        /\ gen[t] = "running" /\ subAt[t] >= 1 /\ connected[t]

\* Supplement to C4, under weak fairness of each stream's generator: an event
\* pending for a stream is delivered to it unless the client goes away.
FairSpec == Spec /\ \A s \in SubIds : WF_vars(GenDeliver(s))

PendingIsDelivered ==
    \A s \in SubIds : \A n \in 1..MaxEvents :
        (\E i \in 1..Len(queue[s]) : queue[s][i].seq = n)
            ~> (Occurrences(delivered[s], n) = 1 \/ ~connected[s])

\* C5: each stream receives events in the order of their publish calls.
C5_DeliveryInPublishOrder ==
    \A s \in SubIds : \A i, j \in 1..Len(delivered[s]) :
        i < j => delivered[s][i].seq < delivered[s][j].seq

\* A stream received two events.
C5_Witness == \E s \in SubIds : Len(delivered[s]) >= 2

Registered(l) == {s \in SubIds : InList(l, s)}

\* The step is one of stream s: its generator or its connection changes.
StepOf(s) ==
    \/ gen'[s] /= gen[s]
    \/ connected'[s] /= connected[s]
    \/ delivered'[s] /= delivered[s]

\* A step of one stream leaves every other stream's queue, deliveries and
\* registration as they were.
NoInterference ==
    \A s \in SubIds : StepOf(s) =>
        \A t \in SubIds \ {s} :
            /\ queue'[t] = queue[t]
            /\ delivered'[t] = delivered[t]
            /\ (t \in Registered(event_queues')) = (t \in Registered(event_queues))

\* No registered queue is ever full: a put of the publish loop never waits
\* for a consumer to read, whatever the streams have or have not read.
PublishNeverWaits ==
    \A s \in Registered(event_queues) : ~full(queue[s])

\* C6: a stream that stalls or disconnects never makes publish wait and
\* never changes what another stream holds or receives.
C6_SubscribersIndependent == []PublishNeverWaits /\ [][NoInterference]_vars

\* A disconnected stream still registered with an unread event, while another
\* stream has received an event.
C6_Witness ==
    \E s, t \in SubIds :
        /\ s /= t
        /\ ~connected[s] /\ InList(event_queues, s) /\ queue[s] /= << >>
        /\ delivered[t] /= << >>

\* C7: the events pending for one stream never exceed a fixed bound. The
\* runs send MaxEvents frames: the bound is any number below that.
C7_PendingBounded == \A s \in SubIds : Len(queue[s]) < MaxEvents

\* C8: after a failed upsert the coordinator keeps running: every frame the
\* relay delivers afterwards is handled, stored and published when the store
\* answers. Only the step of the failure itself ingests nothing.
C8_KeepsIngestingAfterFailure ==
    [][(Sent' = Sent + 1 /\ ~(listenTask = "running" /\ listenTask' = "crashed"))
          => Len(log') = Len(log) + 1]_vars

\* C9: a failed upsert leaves every point, the one of that id included, and
\* every queue as they were: the event is not published.
C9_FailedUpsertChangesNothing ==
    [][(listenTask = "running" /\ listenTask' = "crashed")
          => store' = store /\ queue' = queue /\ delivered' = delivered]_vars

\* An upsert failed with points in the store and a stream registered.
C9_Witness ==
    /\ listenTask = "crashed"
    /\ DOMAIN store /= {}
    /\ \E s \in SubIds : InList(event_queues, s) /\ connected[s]

\* C10: an event with an empty id is rejected before any store mutation and
\* is not published: no point and no queue entry has the empty id.
C10_MalformedRejected ==
    /\ "" \notin DOMAIN store
    /\ \A s \in SubIds : \A i \in 1..Len(Entries(s)) : Entries(s)[i].event.id /= ""

\* Ideas in the store; all of them are scrolled while they are at most
\* ScrollLimit.
Scrolled == {store[id].id : id \in DOMAIN store}

ClusterMembers(c) == {c[m].event_id : m \in 1..Len(c)}

\* C11: with fewer than 5 ideas in the store, 0 to 4, clusters returns the
\* empty list.
C11_FewIdeasNoClusters ==
    (lastQuery.op = "clusters" /\ Cardinality(Scrolled) < 5)
        => lastQuery.clusters = << >>

\* The call was answered over 4 ideas.
C11_Witness ==
    lastQuery.op = "clusters" /\ Cardinality(Scrolled) = 4

\* C12: with n >= 5 ideas scrolled, the clusters returned are a partition of
\* them: every idea is in exactly one cluster and once, no cluster is empty,
\* no other idea appears, and there are between 1 and min(5, n div 3)
\* clusters.
C12_ClustersPartition ==
    (lastQuery.op = "clusters" /\ Cardinality(Scrolled) >= 5) =>
        LET cs == lastQuery.clusters
            n == Cardinality(Scrolled)
            k == IF n \div 3 < 5 THEN n \div 3 ELSE 5
        IN  /\ Len(cs) >= 1 /\ Len(cs) <= k
            /\ \A c \in 1..Len(cs) :
                  /\ Len(cs[c]) >= 1
                  /\ ClusterMembers(cs[c]) \subseteq Scrolled
                  /\ Cardinality(ClusterMembers(cs[c])) = Len(cs[c])
            /\ \A id \in Scrolled :
                  Cardinality({c \in 1..Len(cs) : id \in ClusterMembers(cs[c])}) = 1

\* Six ideas of three contents came back in two clusters.
C12_Witness ==
    /\ lastQuery.op = "clusters"
    /\ Cardinality(Scrolled) = 6
    /\ Cardinality({store[id].vector : id \in DOMAIN store}) = 3
    /\ Len(lastQuery.clusters) = 2

\* C13: a search with an empty or blank query returns nothing and sends no
\* request to the store, through the API as through the partial.
C13_BlankQueryShortCircuits ==
    (lastQuery.op \in {"search", "partial"} /\ lastQuery.query \in {"", "  "})
        => lastQuery.results = << >> /\ lastQuery.calls = << >>

\* C14: a search with an author filter returns ideas of that author only.
\* A filter is a key: None and the empty string build no filter.
C14_AuthorFilterExact ==
    (lastQuery.op = "search" /\ lastQuery.pubkey \notin {"None", ""}) =>
        \A i \in 1..Len(lastQuery.results) :
            lastQuery.results[i].pubkey = lastQuery.pubkey

\* A filtered search returned an idea while the store held an idea of another
\* author closer to the query.
C14_Witness ==
    /\ lastQuery.op = "search"
    /\ lastQuery.pubkey \notin {"None", ""}
    /\ lastQuery.at = Len(log)
    /\ lastQuery.results /= << >>
    /\ \E id \in DOMAIN store :
          /\ store[id].payload.pubkey /= lastQuery.pubkey
          /\ Cosine(store[id].vector, create_embedding(lastQuery.query))
               > lastQuery.results[1].score

\* The search is search(x.content, 1) without filter, asked right after x,
\* the last event ingested.
SearchAfterIngest ==
    /\ lastQuery.op = "search"
    /\ lastQuery.limit = 1
    /\ lastQuery.pubkey = "None"
    /\ log /= << >>
    /\ lastQuery.at = Len(log)
    /\ lastQuery.query = log[Len(log)].content

\* C15 as stated: right after ingest(x), search(x.content, 1) returns x.id
\* with the score of self-similarity, whatever else the store holds.
C15_SelfIsTopHit ==
    SearchAfterIngest =>
        /\ Len(lastQuery.results) = 1
        /\ lastQuery.results[1].event_id = log[Len(log)].id
        /\ lastQuery.results[1].score = 1000

\* C15 as amended: the top hit has the score of self-similarity and the
\* embedding of x; it is x.id when no other stored idea has that embedding.
C15_TopHitHasSelfScore ==
    SearchAfterIngest =>
        LET x == log[Len(log)]
            same == {id \in DOMAIN store : store[id].vector = create_embedding(x.content)}
        IN  /\ Len(lastQuery.results) = 1
            /\ lastQuery.results[1].score = 1000
            /\ lastQuery.results[1].event_id \in same
            /\ same = {x.id} => lastQuery.results[1].event_id = x.id

\* The search after an ingest, once alone with its embedding and once not.
C15_Witness ==
    /\ SearchAfterIngest
    /\ Cardinality(DOMAIN store) >= 2
    /\ lastQuery.results[1].event_id = log[Len(log)].id
    /\ \E id \in DOMAIN store : store[id].vector /= create_embedding(lastQuery.query)

\* C16: related(id, limit) for an id that is not in the store returns the
\* empty list and sends no search to the store.
C16_UnknownIdEmpty ==
    (lastQuery.op = "related" /\ lastQuery.id \notin DOMAIN store) =>
        /\ lastQuery.results = << >>
        /\ \A i \in 1..Len(lastQuery.calls) : lastQuery.calls[i] /= "search"

\* related() was called for an unknown id, limit >= 1, with ideas in the store.
C16_Witness ==
    /\ lastQuery.op = "related"
    /\ lastQuery.id \notin DOMAIN store
    /\ lastQuery.limit >= 1
    /\ DOMAIN store /= {}

\* The elements of seq in the order of their first occurrences.
FirstOccurrences(seq) ==
    LET IsFirst(i) == \A j \in 1..(i - 1) : seq[j] /= seq[i]
        idx == SelectSeq([i \in 1..Len(seq) |-> i], IsFirst)
    IN  [i \in 1..Len(idx) |-> seq[idx[i]]]

\* The second fields of the "e" tags, in tag order.
ETagIds(tags) ==
    LET IsE(i) == tags[i][1] = "e"
        idx == SelectSeq([i \in 1..Len(tags) |-> i], IsE)
    IN  [i \in 1..Len(idx) |-> tags[idx[i]][2]]

\* C17: the references stored for an idea are the ids of the "e" tags of
\* its event in tag order, each once, at the place of its first occurrence.
C17_ReferencesDeduplicated ==
    \A id \in DOMAIN store :
        store[id].payload.references
            = FirstOccurrences(ETagIds(LastIngested(id).tags))

TimeoutStep(s) ==
    /\ gen[s] \in {"created", "running"}
    /\ connected[s]
    /\ queue[s] = << >>
    /\ gen'[s] /= gen[s]

\* A stream whose generator runs and has yielded pings only.
IdlePinged(s) == gen[s] = "running" /\ delivered[s] = << >>

\* After the timeout the stream is as subscribed as before: registered,
\* connected, its generator in the loop.
StaysSubscribed ==
    \A s \in SubIds : TimeoutStep(s) =>
        /\ gen'[s] = "running"
        /\ InList(event_queues', s)
        /\ connected'[s]
        /\ delivered'[s] = delivered[s]

\* An event ingested while a stream has yielded pings only is put on its
\* queue, and the next step of its generator yields the oldest such event.
DeliveredAfterPing ==
    \A s \in SubIds : IdlePinged(s) =>
        /\ Len(log') = Len(log) + 1 =>
              queue'[s] = Append(queue[s], [seq |-> Len(log'), event |-> log'[Len(log')]])
        /\ (connected[s] /\ queue[s] /= << >> /\ (gen'[s] /= gen[s] \/ queue'[s] = Tail(queue[s])))
              => delivered'[s] = << Head(queue[s]) >>

\* C19: a connected stream with no event for 30 s gets a ping and stays
\* subscribed; an event published afterwards is delivered to it.
C19_PingKeepsSubscribed == [][StaysSubscribed /\ DeliveredAfterPing]_vars

\* A connected stream that has yielded pings only is registered and holds an
\* event published after the ping, for its next get.
C19_Witness ==
    \E s \in SubIds :
        /\ IdlePinged(s)
        /\ connected[s]
        /\ InList(event_queues, s)
        /\ queue[s] /= << >>

\* C20: the registry holds no channel of a consumer that is gone for good:
\* once the client has disconnected and the generator has finished or was
\* dropped, nothing will run for that stream again, so its queue must be out
\* of event_queues by then.
C20_GoneConsumerRemoved ==
    \A s \in SubIds :
        (~connected[s] /\ gen[s] \in {"closed", "abandoned"}) => ~InList(event_queues, s)

\* C21: once an init() call has completed, the collection exists with its
\* dimensionality, the cosine metric and both indices, whatever happened to
\* the calls before it.
C21_InitEstablishesCollection ==
    (startup.pc = "idle" /\ startup.done >= 1) => collection = FullCollection

\* Supplement to C21: no step of init_collection on a collection that exists
\* changes a stored point.
InitKeepsPoints ==
    [][(startup' /= startup /\ collection.exists) => store' = store]_vars

\* The resonance check is the one for x, the last idea ingested, and its
\* author.
ResonanceAfterIngest ==
    /\ lastQuery.op = "resonance"
    /\ log /= << >>
    /\ lastQuery.at = Len(log)
    /\ lastQuery.event = log[Len(log)]
    /\ lastQuery.pubkey = lastQuery.event.pubkey

\* C22: a signal is emitted exactly when a prior idea of the author has a
\* similarity above 0.7 to the new idea; the matching ideas are the
\* author's, score above 0.7 and are not the new idea.
C22_ResonanceOnPriorIdeas ==
    ResonanceAfterIngest =>
        LET x == lastQuery.event
            prior == {id \in DOMAIN store :
                        /\ id /= x.id
                        /\ store[id].payload.pubkey = x.pubkey
                        /\ Cosine(store[id].vector, create_embedding(x.content)) > 700}
            r == lastQuery.result
        IN  /\ r.signal = (prior /= {})
            /\ r.signal =>
                  \A i \in 1..Len(r.matching_ideas) :
                      /\ r.matching_ideas[i].pubkey = x.pubkey
                      /\ r.matching_ideas[i].score > 700
                      /\ r.matching_ideas[i].event_id /= x.id

\* A step that ingests.
Ingests == Len(log') = Len(log) + 1

\* C23: an ingest changes the point of its id and no other; a call of
\* search, related or clusters changes no point; no id ever leaves the
\* store.
C23_StoreFrame ==
    [][/\ \A id \in DOMAIN store : id \in DOMAIN store'
       /\ Ingests =>
             \A id \in DOMAIN store' \ {log'[Len(log')].id} :
                 id \in DOMAIN store /\ store'[id] = store[id]
       /\ ~Ingests => store' = store]_vars

\* An event was ingested into a store of other ideas and a call of each
\* kind was answered over six ideas or more.
C23_Witness ==
    /\ log /= << >>
    /\ Cardinality(DOMAIN store) > MaxFramePoints
    /\ lastQuery.op = "clusters"
    /\ lastQuery.clusters /= << >>

\* Ideas in the store other than id.
Others(id) == DOMAIN store \ {id}

\* C25: for an id in the store, related(id, limit) returns the smaller of
\* limit and the number of other ideas in the store.
C25_RelatedCount ==
    (lastQuery.op = "related" /\ lastQuery.at = Len(log)
        /\ lastQuery.id \in DOMAIN store) =>
        Len(lastQuery.results)
            = IF lastQuery.limit < Cardinality(Others(lastQuery.id))
                THEN lastQuery.limit
                ELSE Cardinality(Others(lastQuery.id))

\* related("a", 1) over a store of three ideas, two with the vector of "a".
C25_Witness ==
    /\ lastQuery.op = "related"
    /\ lastQuery.at = Len(log)
    /\ lastQuery.id = "a"
    /\ lastQuery.limit = 1
    /\ Cardinality(DOMAIN store) = 3
    /\ Len(lastQuery.results) = 1

\* The text in small letters, letter by letter.
SmallLetters(text) ==
    [i \in 1..Len(text) |->
        CASE text[i] = "A" -> "a" [] text[i] = "B" -> "b" [] text[i] = "C" -> "c"
          [] text[i] = "D" -> "d" [] text[i] = "E" -> "e" [] text[i] = "F" -> "f"
          [] OTHER -> text[i]]

\* The text without the blanks at its ends.
Unpadded(text) ==
    LET first == CHOOSE i \in 1..Len(text) :
                     text[i] /= " " /\ \A j \in 1..(i - 1) : text[j] = " "
        last == CHOOSE i \in 1..Len(text) :
                     text[i] /= " " /\ \A j \in (i + 1)..Len(text) : text[j] = " "
    IN  SubSeq(text, first, last)

\* The step before was importKey with the library loaded and a text in the
\* field that is not blank.
Imported ==
    /\ lastCall.op = "importKey"
    /\ lastCall.loaded
    /\ \E i \in 1..Len(lastCall.input) : lastCall.input[i] /= " "

\* C24: importing the nsec that openKeyModal shows for the current identity
\* leaves privateKey and pubkey as they are; importing the 64 hex digits of
\* a key makes privateKey those digits in small letters and pubkey the key
\* derived from them.
C24_KeyRoundTrip ==
    Imported =>
        LET input == Unpadded(lastCall.input)
            before == lastCall.before
        IN  /\ (before.privateKey /= << >>
                  /\ input = nsecEncode(hex_to_bytes(before.privateKey)))
                => /\ app.privateKey = before.privateKey
                   /\ app.pubkey = before.pubkey
                   /\ localStorage = Item(before.pubkey, before.privateKey)
            /\ (Len(input) = 64 /\ (\A i \in 1..64 : IsHexChar(input[i]))
                  /\ getPublicKey(hex_to_bytes(input)).ok)
                => /\ app.privateKey = SmallLetters(input)
                   /\ app.pubkey = getPublicKey(hex_to_bytes(input)).pk
                   /\ localStorage = Item(app.pubkey, app.privateKey)

\* The nsec in the export field was put into the import field and imported.
C24_Witness ==
    /\ Imported
    /\ app.keyExportValue /= << >>
    /\ lastCall.input = app.keyExportValue
    /\ lastCall.notified = "Schluessel importiert!"

\* No two entries of the list have the same event_id.
NoTwice(refs) ==
    \A i, j \in 1..Len(refs) : refs[i].event_id = refs[j].event_id => i = j

\* The entries of new are entries of old, in the order they have in old.
InOrderOf(new, old) ==
    \E f \in [1..Len(new) -> 1..Len(old)] :
        /\ \A k \in 1..Len(new) : new[k] = old[f[k]]
        /\ \A k, l \in 1..Len(new) : k < l => f[k] < f[l]

\* The step is a step of the page method op.
PageStep(op) ==
    /\ lastCall'.op = op
    /\ <<app, calls, lastCall>>' /= <<app, calls, lastCall>>

\* C26: selectedReferences never holds an event_id twice; addReference puts
\* a new reference behind the others and leaves a known one where it is;
\* removeReference takes the reference out and leaves the others in their
\* order; the event submitIdea sends has the tags d, t, client and then one
\* e tag for each selected reference, in the order of the list.
C26_ReferencesInOrder ==
    [][ /\ NoTwice(app'.selectedReferences)
        /\ PageStep("addReference") =>
             LET old == app.selectedReferences
                 entry == [event_id |-> lastCall'.idea.event_id,
                           content_preview |-> lastCall'.idea.content_preview]
             IN  IF \E i \in 1..Len(old) : old[i].event_id = entry.event_id
                   THEN app'.selectedReferences = old
                   ELSE app'.selectedReferences = old \o << entry >>
        /\ PageStep("removeReference") =>
             /\ InOrderOf(app'.selectedReferences, app.selectedReferences)
             /\ \A i \in 1..Len(app.selectedReferences) :
                    (\E j \in 1..Len(app'.selectedReferences) :
                        app'.selectedReferences[j] = app.selectedReferences[i])
                      <=> app.selectedReferences[i].event_id /= lastCall'.eventId
        /\ (PageStep("submitIdea") /\ lastCall'.outcome = "sent") =>
             LET tags == lastCall'.requests[1].body.tags
                 refs == app.selectedReferences
             IN  /\ Len(tags) = 3 + Len(refs)
                 /\ tags[1][1] = "d"
                 /\ tags[2] = <<"t", "idea">>
                 /\ tags[3] = <<"client", "ideaflow">>
                 /\ \A i \in 1..Len(refs) : tags[3 + i] = <<"e", refs[i].event_id>>
      ]_vars

\* An idea was sent with two references, b picked before a.
C26_Witness ==
    /\ lastCall.op = "submitIdea"
    /\ lastCall.outcome = "sent"
    /\ Len(app.selectedReferences) = 2
    /\ app.selectedReferences[1].event_id = "b"
    /\ Len(lastCall.requests[1].body.tags) = 5

\* C27: a request for the recent ideas or for the export has the parameter
\* time=<timeFilter> when the filter is not 'all', and no time parameter
\* when it is.
C27_RequestsCarryFilter ==
    "requests" \in DOMAIN lastCall =>
        \A i \in 1..Len(lastCall.requests) :
            LET r == lastCall.requests[i]
            IN  r.path \in {"/partials/recent-ideas", "/api/export"} =>
                    {q \in r.params : q[1] = "time"}
                        = IF app.timeFilter = "all" THEN {}
                                                    ELSE { <<"time", app.timeFilter>> }

\* The step ends a submitIdea call with the outcome.
SubmitDone(outcome) ==
    /\ lastCall'.op \in {"submitIdea", "submitIdea:fetch", "submitIdea:json"}
    /\ lastCall'.outcome = outcome
    /\ <<app, calls, lastCall>>' /= <<app, calls, lastCall>>

\* C28: the step that ends a submitIdea call on an OK response leaves
\* newIdea and selectedReferences empty and submitStatus 'ok'; the step that
\* ends it on another response, a rejected fetch or a signing error leaves
\* newIdea and selectedReferences as they were and submitStatus 'error';
\* both leave isSubmitting false.
C28_SubmitCompletion ==
    [][ /\ SubmitDone("ok") =>
             /\ app'.newIdea = ""
             /\ app'.selectedReferences = << >>
             /\ app'.submitStatus = "ok"
             /\ ~app'.isSubmitting
        /\ SubmitDone("error") =>
             /\ app'.newIdea = app.newIdea
             /\ app'.selectedReferences = app.selectedReferences
             /\ app'.submitStatus = "error"
             /\ ~app'.isSubmitting
      ]_vars

\* A call ended on a response that was not OK, with the idea and its
\* reference still there.
C28_Witness ==
    /\ lastCall.op = "submitIdea:json"
    /\ lastCall.outcome = "error"
    /\ app.newIdea = "idea"
    /\ Len(app.selectedReferences) = 1
    /\ app.submitStatus = "error"
    /\ ~app.isSubmitting

\* A call ended on a signing error.
SigningErrorSeen ==
    /\ lastCall.op = "submitIdea"
    /\ lastCall.outcome = "error"
    /\ app.submitStatus = "error"

\* C29: submitIdea called with newIdea empty or blank, without a pubkey or
\* without the library sends no request, starts no call, and leaves
\* newIdea, selectedReferences, isSubmitting and submitStatus as they were.
C29_SubmitGuards ==
    [][ (/\ PageStep("submitIdea")
         /\ \/ app.newIdea \in {"", "  "}
            \/ app.pubkey = << >>
            \/ NostrTools /= "loaded")
        => /\ lastCall'.requests = << >>
           /\ calls' = calls
           /\ app'.newIdea = app.newIdea
           /\ app'.selectedReferences = app.selectedReferences
           /\ app'.isSubmitting = app.isSubmitting
           /\ app'.submitStatus = app.submitStatus
      ]_vars

\* submitIdea returned on a blank idea, with keys, library and a reference
\* there.
C29_Witness ==
    /\ lastCall.op = "submitIdea"
    /\ lastCall.outcome = "returned"
    /\ app.newIdea = "  "
    /\ app.pubkey /= << >>
    /\ NostrTools = "loaded"
    /\ Len(app.selectedReferences) = 1

\* The submitIdea calls waiting for the server.
Outstanding(cs) == {i \in 1..Len(cs) : cs[i].op = "submitIdea"}

\* C30: a submitIdea call made while isSubmitting is true sends no request,
\* so that at most one call waits for the server; and the response to a
\* call leaves newIdea alone when it is no longer the text the call sent.
C30_OneSubmissionAtATime ==
    [][ /\ (PageStep("submitIdea") /\ app.isSubmitting) => lastCall'.requests = << >>
        /\ Cardinality(Outstanding(calls')) <= 1
        /\ (PageStep("submitIdea:fetch") /\ lastCall'.event.content /= app.newIdea)
             => app'.newIdea = app.newIdea
      ]_vars

\* Both keys unset, or both set and the pair stored under 'nostr_keys'.
IdentityInStep(a, stored) ==
    \/ a.pubkey = << >> /\ a.privateKey = << >>
    \/ /\ a.pubkey /= << >>
       /\ a.privateKey /= << >>
       /\ stored = [present |-> TRUE, pubkey |-> a.pubkey,
                    privateKey |-> a.privateKey]

\* The text in the import field is no key to import: it is blank, or it
\* neither starts with nsec1 nor is 64 hex digits.
NoKeyText(text) ==
    \/ \A i \in 1..Len(text) : text[i] = " "
    \/ LET input == Unpadded(text)
       IN  /\ ~(Len(input) >= 5 /\ SubSeq(input, 1, 5) = <<"n", "s", "e", "c", "1">>)
           /\ ~(Len(input) = 64 /\ \A i \in 1..64 : IsHexChar(input[i]))

\* C31: after every step pubkey and privateKey are both unset, or both set
\* and equal to the pair in localStorage; an importKey call that fails
\* (blank or malformed input, a bech32 text that is no nsec, the library
\* missing, or any other call that does not report success) changes neither
\* the keys in memory nor localStorage and leaves the key modal open.
C31_IdentityConsistent ==
    [][ /\ IdentityInStep(app', localStorage')
        /\ (/\ PageStep("importKey")
            /\ \/ NoKeyText(app.keyImportValue)
               \/ NostrTools /= "loaded"
               \/ lastCall'.notified /= "Schluessel importiert!")
           => /\ app'.pubkey = app.pubkey
              /\ app'.privateKey = app.privateKey
              /\ localStorage' = localStorage
              /\ app'.showKeyModal = app.showKeyModal
      ]_vars

\* An identity is set, the modal is open, and importKey has refused a bech32
\* text that is no nsec.
C31_Witness ==
    /\ lastCall.op = "importKey"
    /\ Len(lastCall.input) > 5
    /\ SubSeq(lastCall.input, 1, 5) = <<"n", "p", "u", "b", "1">>
    /\ lastCall.notified = "Ungueltiges Format"
    /\ app.pubkey /= << >>
    /\ localStorage.present
    /\ app.showKeyModal

\* C32: with the key modal closed, keyExportValue is empty.
C32_ExportEmptyWhenClosed ==
    ~app.showKeyModal => app.keyExportValue = << >>

\* init() has run and returned: no call of it waits.
InitReturned ==
    /\ Started
    /\ \A i \in 1..Len(calls) : calls[i].op /= "init"

\* C36: init() returns in every execution, and nostrReady is true only with
\* the library loaded.
C36_InitTerminates ==
    /\ <>InitReturned
    /\ [](app.nostrReady => NostrTools = "loaded")

\* No shown result is a selected reference.
NoneSelected(a) ==
    \A k \in 1..Len(a.referenceSearchResults), l \in 1..Len(a.selectedReferences) :
        a.referenceSearchResults[k].event_id /= a.selectedReferences[l].event_id

\* C33: the shown results never hold a selected reference, and the response
\* to a searchReferences call leaves the results as they are when a newer
\* call with another query is on its way or the reference search has been
\* closed.
C33_ResultsOfLatestSearch ==
    [][ /\ NoneSelected(app')
        /\ (/\ PageStep("searchReferences:json")
            /\ \/ \E j \in 1..Len(calls) :
                      /\ j > lastCall'.index
                      /\ calls[j].op = "searchReferences"
                      /\ calls[j].query /= lastCall'.query
               \/ ~app.showReferenceSearch)
           => app'.referenceSearchResults = app.referenceSearchResults
      ]_vars

\* The results never hold a selected reference.
ResultsNotSelected == NoneSelected(app)

\* C34: while listen() reads from an open connection the relay holds the
\* "ideas" subscription for that connection, and no idea event published
\* while it was reading went unsent.
C34_SubscribedAfterReconnect ==
    (listenTask = "running" /\ ws.open)
        => /\ \E sub \in relay.subs : sub.conn = ws.conn /\ sub.sub_id = "ideas"
           /\ relay.unsent = {}

\* The "ideas" frames in the inbox.
IdeasUnread == Len(SelectSeq(inbox, LAMBDA f : f[1] = "EVENT" /\ f[2] = "ideas"))

\* C35: every "ideas" frame read off the connection was dispatched to
\* handle_new_idea, once; fetch_events reads only frames of its own
\* subscription and returns only events of those frames.
C35_FetchLeavesOtherFrames ==
    /\ Len(relay.sent) - IdeasUnread
         = Len(log) + (IF listenTask = "crashed" THEN 1 ELSE 0)
    /\ \A k \in 1..Len(fetch.read) : fetch.read[k][2] = fetch.sub_id
    /\ \A k \in 1..Len(fetch.events) :
           \E l \in 1..Len(fetch.read) :
               fetch.read[l] = <<"EVENT", fetch.sub_id, fetch.events[k]>>

\* fetch_events never returns while listen() runs: listen() is waiting in
\* recv(), so the recv() of fetch_events raises RuntimeError.
FetchReturnsBesideListener ==
    ~(fetch.pc = "returned" /\ listenTask = "running")

====
